---- MODULE Spec2Model ----
(***************************************************************************)
(* Whereish backend (src/server/app.py): the contact graph, the permission *)
(* store and the location disclosure query, as the request handlers of the *)
(* Flask application acting on the SQLite tables.                          *)
(*                                                                         *)
(* Every request runs on its own connection (get_db) in its own thread of  *)
(* the server, and a SELECT is not part of a transaction: a handler that   *)
(* reads and then writes is two steps, and handlers of other requests may  *)
(* run between them.  A write statement up to its commit is one step.      *)
(***************************************************************************)
EXTENDS Integers, FiniteSets, Sequences, TLC

\* ------------------------------------------------------------ bounds

\* Requests being handled at the same time (server threads).
MaxInFlight == 2
\* Rows ever inserted into contacts (the AUTOINCREMENT id never repeats).
MaxContactId == 2
\* The last minute of the server clock.
MaxNow == 45
\* Users ever created by register and auth_google.
MaxNewUsers == 2
\* Devices ever registered.
MaxDevices == 3

\* Tokens secrets.token_hex hands out to the transfer routes: the ids of the
\* transfers created and the temporary device ids of the claims.
MaxTransferTokens == 3
\* Minutes the clock of the transfer routes runs.
MaxTransferNow == 20

Threads == 1..MaxInFlight

\* ------------------------------------------------------------ constants

PERMISSION_LEVELS ==
    <<"planet", "continent", "country", "state", "county", "city",
      "neighborhood", "street", "address">>

DEFAULT_PERMISSION_LEVEL == "planet"

Levels == {PERMISSION_LEVELS[i] : i \in DOMAIN PERMISSION_LEVELS}

\* PERMISSION_LEVELS.index(level), from 0
LevelIndex(level) ==
    (CHOOSE i \in DOMAIN PERMISSION_LEVELS : PERMISSION_LEVELS[i] = level) - 1

\* The registered users (rows of the users table): id and stored email.
UserIds == {"alice", "bob", "carol"}

EmailOf(u) ==
    CASE u = "alice" -> "alice@test.com"
      [] u = "bob"   -> "bob@test.com"
      [] u = "carol" -> "carol@test.com"

\* Emails a caller may send: registered ones, one in another case, an unknown one.
EmailInputs ==
    {"alice@test.com", "bob@test.com", "carol@test.com", " Bob@Test.COM ",
     "nobody@test.com"}

\* Levels a caller may send to update_contact_permission.
LevelInputs == {"city", "invalid_level"}

\* Contact ids a caller may put in a URL.
ContactIdInputs == UserIds \cup {"nonexistent-id"}

RequestIds == 1..MaxContactId

\* Minutes after which a stored location is stale.
LOCATION_EXPIRY_MINUTES == 30

\* ------------------------------------------------------------ state

VARIABLES
    users,        \* users table: set of [id, email, google_id, public_key]
    user_seq,     \* user ids handed out so far (secrets.token_hex never repeats)
    contacts,     \* contacts table: set of [id, requester_id, recipient_id, status]
    contact_seq,  \* sqlite_sequence of contacts: the last id handed out
    permissions,  \* permissions table: set of [granter_id, grantee_id, permission_level]
    locations,    \* location record store: user id -> record or NoRecord
    encrypted_locations,
                  \* encrypted_locations table: set of
                  \* [from_user_id, to_user_id, encrypted_blob, updated_at]
    devices,      \* devices table: set of [id, user_id, is_active]
    device_seq,   \* device ids handed out so far (generate_device_id never repeats)
    transfers,    \* transfers table: set of [id, code, source_user_id,
                  \* source_device_id, target_device_id, status,
                  \* encrypted_identity, expires_at]
    transfer_seq, \* transfer ids handed out so far (secrets.token_hex never repeats)
    now,          \* datetime.utcnow(), in minutes
    threads,      \* per server thread: the handler it is in and the locals it holds
    resp          \* the response (or the step) of the handler that ran last

vars ==
    <<users, user_seq, contacts, contact_seq, permissions, locations,
      encrypted_locations, devices, device_seq, transfers, transfer_seq, now,
      threads, resp>>

db ==
    <<users, user_seq, contacts, contact_seq, permissions, locations,
      encrypted_locations, devices, device_seq, transfers, transfer_seq>>

\* NULL in a TEXT column
NULL == ""

NoUser == [id |-> "", email |-> "", google_id |-> NULL, public_key |-> NULL]

Idle ==
    [op |-> "idle", pc |-> "", user |-> "", target |-> "", id |-> 0,
     level |-> "", ids |-> {}, rows |-> {}, locs |-> <<>>, out |-> {},
     expiry_time |-> 0, email |-> "", google_id |-> "", device |-> FALSE,
     is_first_device |-> FALSE, is_new |-> FALSE, temp_device_id |-> 0,
     encrypted_identity |-> ""]

NoBody == [kind |-> "none"]

\* A step of a handler: status 0 while the handler goes on, else the HTTP status.
Response(op, pc, user, target, id, status, body) ==
    [op |-> op, pc |-> pc, user |-> user, target |-> target, id |-> id,
     status |-> status, body |-> body]

NoResponse == Response("", "", "", "", 0, 0, NoBody)

\* ------------------------------------------------------------ string helpers

\* str.strip() on the emails a caller may send
strip(email) ==
    IF email = " Bob@Test.COM " THEN "Bob@Test.COM" ELSE email

\* str.lower() on the emails a caller may send
lower(email) ==
    CASE email = "Bob@Test.COM"   -> "bob@test.com"
      [] email = " Bob@Test.COM " -> " bob@test.com "
      [] email = "Dave@Test.com"  -> "dave@test.com"
      [] OTHER                    -> email

\* str.strip().lower()
strip_lower(email) == lower(strip(email))

\* ------------------------------------------------------------ user helpers

\* SELECT ... FROM users WHERE email = lower(?)
get_user_by_email(email) ==
    LET rows == {u \in users : u.email = lower(email)}
    IN  IF rows = {} THEN NoUser ELSE CHOOSE u \in rows : TRUE

\* SELECT ... FROM users WHERE id = ?
get_user_by_id(user_id) ==
    LET rows == {u \in users : u.id = user_id}
    IN  IF rows = {} THEN NoUser ELSE CHOOSE u \in rows : TRUE

\* Mutant: the status filter left out.
get_user_contacts_any_status(user_id) ==
    {IF r.requester_id = user_id THEN r.recipient_id ELSE r.requester_id :
        r \in {c \in contacts :
                 c.requester_id = user_id \/ c.recipient_id = user_id}}

\* Mutant: only the requests the user sent.
get_user_contacts_as_requester(user_id) ==
    {r.recipient_id :
        r \in {c \in contacts :
                 c.requester_id = user_id /\ c.status = "accepted"}}

\* SELECT CASE WHEN requester_id = ? THEN recipient_id ELSE requester_id END
\* FROM contacts WHERE (requester_id = ? OR recipient_id = ?) AND status = 'accepted'
get_user_contacts(user_id) ==
    {IF r.requester_id = user_id THEN r.recipient_id ELSE r.requester_id :
        r \in {c \in contacts :
                 /\ (c.requester_id = user_id \/ c.recipient_id = user_id)
                 /\ c.status = "accepted"}}

\* ------------------------------------------------------------ permission helpers

\* Mutant: no default, the missing row read as no level.
get_permission_level_no_default(granter_id, grantee_id) ==
    LET rows == {p \in permissions :
                    p.granter_id = granter_id /\ p.grantee_id = grantee_id}
    IN  IF rows # {} THEN (CHOOSE p \in rows : TRUE).permission_level
        ELSE "none"

\* SELECT permission_level FROM permissions WHERE granter_id = ? AND grantee_id = ?
get_permission_level(granter_id, grantee_id) ==
    LET rows == {p \in permissions :
                    p.granter_id = granter_id /\ p.grantee_id = grantee_id}
    IN  IF rows # {} THEN (CHOOSE p \in rows : TRUE).permission_level
        ELSE DEFAULT_PERMISSION_LEVEL

\* Mutant: the grant written in both directions.
set_permission_level_both_ways(granter_id, grantee_id, level) ==
    {p \in permissions :
        /\ ~(p.granter_id = granter_id /\ p.grantee_id = grantee_id)
        /\ ~(p.granter_id = grantee_id /\ p.grantee_id = granter_id)}
    \cup {[granter_id |-> granter_id, grantee_id |-> grantee_id,
           permission_level |-> level],
          [granter_id |-> grantee_id, grantee_id |-> granter_id,
           permission_level |-> level]}

\* Mutant: ON CONFLICT DO NOTHING, the first level stored is kept.
set_permission_level_keep_first(granter_id, grantee_id, level) ==
    IF \E p \in permissions :
          p.granter_id = granter_id /\ p.grantee_id = grantee_id
    THEN permissions
    ELSE permissions \cup {[granter_id |-> granter_id, grantee_id |-> grantee_id,
                            permission_level |-> level]}

\* INSERT INTO permissions ... ON CONFLICT(granter_id, grantee_id) DO UPDATE SET
\* permission_level = excluded.permission_level: the table after the statement.
set_permission_level(granter_id, grantee_id, level) ==
    {p \in permissions :
        ~(p.granter_id = granter_id /\ p.grantee_id = grantee_id)}
    \cup {[granter_id |-> granter_id, grantee_id |-> grantee_id,
           permission_level |-> level]}

\* ------------------------------------------------------------ threads

Free(t) == threads[t].op = "idle"

\* A request is taken by the first free thread.
CanStart(t) ==
    /\ Free(t)
    /\ \A s \in Threads : s < t => ~Free(s)

At(t, op, pc) == threads[t].op = op /\ threads[t].pc = pc

Goto(t, rec) == threads' = [threads EXCEPT ![t] = rec]

Done(t) == threads' = [threads EXCEPT ![t] = Idle]

\* ------------------------------------------------------------ contacts

\* Mutant: the existence check in the direction of the request only.
existing_contact_one_way(user_id, target_id) ==
    {c \in contacts : c.requester_id = user_id /\ c.recipient_id = target_id}

\* SELECT status FROM contacts WHERE (requester_id = ? AND recipient_id = ?)
\*                                 OR (requester_id = ? AND recipient_id = ?)
\* with (user, target, target, user)
existing_contact(user_id, target_id) ==
    {c \in contacts :
        \/ (c.requester_id = user_id /\ c.recipient_id = target_id)
        \/ (c.requester_id = target_id /\ c.recipient_id = user_id)}

\* POST /api/contacts/request, up to the existence check.
send_contact_request(t, u, email) ==
    /\ CanStart(t)
    /\ LET target   == get_user_by_email(strip_lower(email))
           existing == existing_contact(u, target.id)
           R(status) == Response("send_contact_request", "check", u, target.id, 0,
                                 status, NoBody)
       IN  IF target = NoUser
           THEN resp' = R(404) /\ UNCHANGED threads
           ELSE IF target.id = u
           THEN resp' = R(400) /\ UNCHANGED threads
           ELSE IF existing # {}
           THEN \E row \in existing :   \* fetchone()
                   IF row.status \in {"accepted", "pending"}
                   THEN resp' = R(409) /\ UNCHANGED threads
                   ELSE /\ resp' = R(0)
                        /\ Goto(t, [Idle EXCEPT !.op = "send_contact_request",
                                        !.pc = "insert", !.user = u,
                                        !.target = target.id])
           ELSE /\ resp' = R(0)
                /\ Goto(t, [Idle EXCEPT !.op = "send_contact_request",
                                !.pc = "insert", !.user = u,
                                !.target = target.id])
    /\ UNCHANGED <<db, now>>

\* INSERT INTO contacts (requester_id, recipient_id, status) VALUES (?, ?, 'pending')
\* under UNIQUE(requester_id, recipient_id); an IntegrityError is not caught (500).
send_contact_request_insert(t) ==
    /\ At(t, "send_contact_request", "insert")
    /\ LET u == threads[t].user
           target == threads[t].target
           R(status) == Response("send_contact_request", "insert", u, target, 0,
                                 status, NoBody)
       IN  IF \E c \in contacts : c.requester_id = u /\ c.recipient_id = target
           THEN /\ resp' = R(500)
                /\ UNCHANGED <<contacts, contact_seq>>
           ELSE /\ contact_seq < MaxContactId
                /\ contact_seq' = contact_seq + 1
                /\ contacts' = contacts \cup
                       {[id |-> contact_seq + 1, requester_id |-> u,
                         recipient_id |-> target, status |-> "pending"]}
                /\ resp' = R(201)
    /\ Done(t)
    /\ UNCHANGED <<users, user_seq, permissions, locations, encrypted_locations,
                   devices, device_seq, transfers, transfer_seq, now>>

\* Mutant: the request looked up by its id alone, whoever calls.
pending_request_any_caller(request_id, role, user_id) ==
    {c \in contacts : c.id = request_id /\ c.status = "pending"}

\* SELECT * FROM contacts WHERE id = ? AND <role>_id = ? AND status = 'pending'
pending_request(request_id, role, user_id) ==
    {c \in contacts :
        /\ c.id = request_id
        /\ (IF role = "recipient" THEN c.recipient_id ELSE c.requester_id) = user_id
        /\ c.status = "pending"}

\* POST /api/contacts/requests/<id>/accept, up to the check of the request.
accept_contact_request(t, u, request_id) ==
    /\ CanStart(t)
    /\ LET rows == pending_request(request_id, "recipient", u)
           R(status) == Response("accept_contact_request", "check", u, "", request_id,
                                 status, NoBody)
       IN  IF rows = {}
           THEN resp' = R(404) /\ UNCHANGED threads
           ELSE /\ resp' = R(0)
                /\ Goto(t, [Idle EXCEPT !.op = "accept_contact_request",
                                !.pc = "update", !.user = u, !.id = request_id,
                                !.target = (CHOOSE c \in rows : TRUE).requester_id])
    /\ UNCHANGED <<db, now>>

\* Mutant: every row between the two users accepted.
accept_contact_request_update_pair(t) ==
    /\ At(t, "accept_contact_request", "update")
    /\ contacts' = {IF {c.requester_id, c.recipient_id}
                         = {threads[t].user, threads[t].target}
                    THEN [c EXCEPT !.status = "accepted"]
                    ELSE c : c \in contacts}
    /\ resp' = Response("accept_contact_request", "update", threads[t].user,
                        threads[t].target, threads[t].id, 200, NoBody)
    /\ Done(t)
    /\ UNCHANGED <<users, user_seq, contact_seq, permissions, locations,
                   encrypted_locations, devices, device_seq, transfers,
                   transfer_seq, now>>

\* UPDATE contacts SET status = 'accepted', accepted_at = ? WHERE id = ?
accept_contact_request_update(t) ==
    /\ At(t, "accept_contact_request", "update")
    /\ contacts' = {IF c.id = threads[t].id THEN [c EXCEPT !.status = "accepted"]
                    ELSE c : c \in contacts}
    /\ resp' = Response("accept_contact_request", "update", threads[t].user,
                        threads[t].target, threads[t].id, 200, NoBody)
    /\ Done(t)
    /\ UNCHANGED <<users, user_seq, contact_seq, permissions, locations,
                   encrypted_locations, devices, device_seq, transfers,
                   transfer_seq, now>>

\* POST /api/contacts/requests/<id>/decline, up to the check of the request.
decline_contact_request(t, u, request_id) ==
    /\ CanStart(t)
    /\ LET rows == pending_request(request_id, "recipient", u)
           R(status) == Response("decline_contact_request", "check", u, "", request_id,
                                 status, NoBody)
       IN  IF rows = {}
           THEN resp' = R(404) /\ UNCHANGED threads
           ELSE /\ resp' = R(0)
                /\ Goto(t, [Idle EXCEPT !.op = "decline_contact_request",
                                !.pc = "delete", !.user = u, !.id = request_id,
                                !.target = (CHOOSE c \in rows : TRUE).requester_id])
    /\ UNCHANGED <<db, now>>

\* POST /api/contacts/requests/<id>/cancel, up to the check of the request.
cancel_contact_request(t, u, request_id) ==
    /\ CanStart(t)
    /\ LET rows == pending_request(request_id, "requester", u)
           R(status) == Response("cancel_contact_request", "check", u, "", request_id,
                                 status, NoBody)
       IN  IF rows = {}
           THEN resp' = R(404) /\ UNCHANGED threads
           ELSE /\ resp' = R(0)
                /\ Goto(t, [Idle EXCEPT !.op = "cancel_contact_request",
                                !.pc = "delete", !.user = u, !.id = request_id,
                                !.target = (CHOOSE c \in rows : TRUE).recipient_id])
    /\ UNCHANGED <<db, now>>

\* DELETE FROM contacts WHERE id = ?   (of decline and of cancel); the response
\* here also names the other user of the row the SELECT had found.
contact_request_delete(t) ==
    /\ threads[t].op \in {"decline_contact_request", "cancel_contact_request"}
    /\ threads[t].pc = "delete"
    /\ contacts' = {c \in contacts : c.id # threads[t].id}
    /\ resp' = Response(threads[t].op, "delete", threads[t].user,
                        threads[t].target, threads[t].id, 200, NoBody)
    /\ Done(t)
    /\ UNCHANGED <<users, user_seq, contact_seq, permissions, locations,
                   encrypted_locations, devices, device_seq, transfers,
                   transfer_seq, now>>

\* Mutant: the DELETE without its status = 'accepted' condition.
remove_contact_any_status(t, u, contact_id) ==
    /\ CanStart(t)
    /\ LET rows == {c \in contacts :
                      \/ (c.requester_id = u /\ c.recipient_id = contact_id)
                      \/ (c.requester_id = contact_id /\ c.recipient_id = u)}
           R(status) == Response("remove_contact", "delete", u, contact_id, 0,
                                 status, NoBody)
       IN  /\ contacts' = contacts \ rows
           /\ IF rows = {}
              THEN resp' = R(404) /\ UNCHANGED threads
              ELSE /\ resp' = R(0)
                   /\ Goto(t, [Idle EXCEPT !.op = "remove_contact",
                                   !.pc = "permissions", !.user = u,
                                   !.target = contact_id])
    /\ UNCHANGED <<users, user_seq, contact_seq, permissions, locations,
                   encrypted_locations, devices, device_seq, transfers,
                   transfer_seq, now>>

\* DELETE /api/contacts/<contact_id>: DELETE FROM contacts WHERE (the pair, either
\* direction) AND status = 'accepted', committed; 404 when no row was deleted.
remove_contact(t, u, contact_id) ==
    /\ CanStart(t)
    /\ LET rows == {c \in contacts :
                      /\ \/ (c.requester_id = u /\ c.recipient_id = contact_id)
                         \/ (c.requester_id = contact_id /\ c.recipient_id = u)
                      /\ c.status = "accepted"}
           R(status) == Response("remove_contact", "delete", u, contact_id, 0,
                                 status, NoBody)
       IN  /\ contacts' = contacts \ rows
           /\ IF rows = {}
              THEN resp' = R(404) /\ UNCHANGED threads
              ELSE /\ resp' = R(0)
                   /\ Goto(t, [Idle EXCEPT !.op = "remove_contact",
                                   !.pc = "permissions", !.user = u,
                                   !.target = contact_id])
    /\ UNCHANGED <<users, user_seq, contact_seq, permissions, locations,
                   encrypted_locations, devices, device_seq, transfers,
                   transfer_seq, now>>

\* Mutant: only the caller's own grant deleted.
removed_permissions_one_way(user_id, contact_id) ==
    {p \in permissions : p.granter_id = user_id /\ p.grantee_id = contact_id}

\* The rows the two DELETE FROM permissions WHERE granter_id = ? AND grantee_id = ?
\* of remove_contact delete: (user, contact) and (contact, user).
removed_permissions(user_id, contact_id) ==
    {p \in permissions :
        \/ (p.granter_id = user_id /\ p.grantee_id = contact_id)
        \/ (p.granter_id = contact_id /\ p.grantee_id = user_id)}

\* The two DELETE FROM permissions, committed. The handler answers
\* {'success': True}; the body here also records how many rows the DELETEs removed.
remove_contact_permissions(t) ==
    /\ At(t, "remove_contact", "permissions")
    /\ LET u == threads[t].user
           contact_id == threads[t].target
           deleted == removed_permissions(u, contact_id)
       IN  /\ permissions' = permissions \ deleted
           /\ resp' = Response("remove_contact", "permissions", u, contact_id, 0,
                               200, [kind |-> "deleted",
                                     rowcount |-> Cardinality(deleted)])
    /\ Done(t)
    /\ UNCHANGED <<users, user_seq, contacts, contact_seq, locations,
                   encrypted_locations, devices, device_seq, transfers,
                   transfer_seq, now>>

\* Mutant: the two levels of an entry exchanged.
get_contacts_permissions_swapped(t) ==
    /\ At(t, "get_contacts", "permissions")
    /\ LET u == threads[t].user
           listing ==
             {[id |-> c,
               permissionGranted |-> get_permission_level(c, u),
               permissionReceived |-> get_permission_level(u, c)] :
                c \in {i \in threads[t].ids : get_user_by_id(i) # NoUser}}
       IN  resp' = Response("get_contacts", "permissions", u, "", 0, 200,
                            [kind |-> "contacts", contacts |-> listing])
    /\ Done(t)
    /\ UNCHANGED <<db, now>>

\* GET /api/contacts: the contact ids first.
get_contacts(t, u) ==
    /\ CanStart(t)
    /\ resp' = Response("get_contacts", "contacts", u, "", 0, 0, NoBody)
    /\ Goto(t, [Idle EXCEPT !.op = "get_contacts", !.pc = "permissions",
                    !.user = u, !.ids = get_user_contacts(u)])
    /\ UNCHANGED <<db, now>>

\* ... then, per contact with a users row, the two permission levels.
get_contacts_permissions(t) ==
    /\ At(t, "get_contacts", "permissions")
    /\ LET u == threads[t].user
           listing ==
             {[id |-> c,
               permissionGranted |-> get_permission_level(u, c),
               permissionReceived |-> get_permission_level(c, u)] :
                c \in {i \in threads[t].ids : get_user_by_id(i) # NoUser}}
       IN  resp' = Response("get_contacts", "permissions", u, "", 0, 200,
                            [kind |-> "contacts", contacts |-> listing])
    /\ Done(t)
    /\ UNCHANGED <<db, now>>

\* ------------------------------------------------------------ permissions

\* Mutant: the level not validated.
update_contact_permission_unvalidated(t, u, contact_id, level) ==
    /\ CanStart(t)
    /\ LET R(status) == Response("update_contact_permission", "check", u,
                                 contact_id, 0, status,
                                 [kind |-> "request", level |-> level])
       IN  IF contact_id \notin get_user_contacts(u)
           THEN resp' = R(403) /\ UNCHANGED threads
           ELSE /\ resp' = R(0)
                /\ Goto(t, [Idle EXCEPT !.op = "update_contact_permission",
                                !.pc = "upsert", !.user = u, !.target = contact_id,
                                !.level = level])
    /\ UNCHANGED <<db, now>>

\* PUT /api/contacts/<contact_id>/permission, up to the validation of the level.
update_contact_permission(t, u, contact_id, level) ==
    /\ CanStart(t)
    /\ LET R(status) == Response("update_contact_permission", "check", u,
                                 contact_id, 0, status,
                                 [kind |-> "request", level |-> level])
       IN  IF contact_id \notin get_user_contacts(u)
           THEN resp' = R(403) /\ UNCHANGED threads
           ELSE IF level \notin Levels
           THEN resp' = R(400) /\ UNCHANGED threads
           ELSE /\ resp' = R(0)
                /\ Goto(t, [Idle EXCEPT !.op = "update_contact_permission",
                                !.pc = "upsert", !.user = u, !.target = contact_id,
                                !.level = level])
    /\ UNCHANGED <<db, now>>

\* set_permission_level(user, contact_id, level), committed.
update_contact_permission_upsert(t) ==
    /\ At(t, "update_contact_permission", "upsert")
    /\ permissions' = set_permission_level(threads[t].user, threads[t].target,
                                           threads[t].level)
    /\ resp' = Response("update_contact_permission", "upsert", threads[t].user,
                        threads[t].target, 0, 200,
                        [kind |-> "permission", permissionGranted |-> threads[t].level])
    /\ Done(t)
    /\ UNCHANGED <<users, user_seq, contacts, contact_seq, locations,
                   encrypted_locations, devices, device_seq, transfers,
                   transfer_seq, now>>

\* ------------------------------------------------------------ location records

\* The canonical hierarchy keys (each mapped to its own level) and one key the
\* key -> level table does not know.
HierarchyKeys ==
    {"continent", "country", "state", "county", "city", "neighborhood", "street",
     "address"}

UnknownKeys == {"zip"}

NoRecord == [kind |-> "none"]

NoNamedLocation == [form |-> "absent", label |-> "", mode |-> "", ids |-> {}]

\* namedLocation given as a bare string (the legacy form)
LegacyNamedLocation(label) ==
    [form |-> "legacy", label |-> label, mode |-> "", ids |-> {}]

\* {"label": ..., "visibleTo": "private" | "all" | [contact ids]}
NamedLocation(label, mode, ids) ==
    [form |-> "object", label |-> label, mode |-> mode, ids |-> ids]

LocationRecord(hierarchy, namedLocation, timestamp) ==
    [kind |-> "record", hierarchy |-> hierarchy, namedLocation |-> namedLocation,
     timestamp |-> timestamp]

\* Mutant: only the key of the granted level itself.
filter_hierarchy_exact(hierarchy, level) ==
    LET keep == {k \in DOMAIN hierarchy :
                    k \in HierarchyKeys /\ LevelIndex(k) = LevelIndex(level)}
    IN  [k \in keep |-> hierarchy[k]]

\* Mutant: continent always kept.
filter_hierarchy_with_continent(hierarchy, level) ==
    LET allowedIndex == LevelIndex(level)
        keep == {k \in DOMAIN hierarchy :
                    /\ k \in HierarchyKeys
                    /\ (LevelIndex(k) <= allowedIndex \/ k = "continent")}
    IN  [k \in keep |-> hierarchy[k]]

\* Disclosure filter, step 2: the keys whose level index is at most the granted one;
\* keys outside the key -> level table are dropped.
filter_hierarchy(hierarchy, level) ==
    LET allowedIndex == LevelIndex(level)
        keep == {k \in DOMAIN hierarchy :
                    k \in HierarchyKeys /\ LevelIndex(k) <= allowedIndex}
    IN  [k \in keep |-> hierarchy[k]]

\* Mutant: a label shown to all only from the city level on.
filter_named_location_by_level(namedLocation, level, viewer, owner) ==
    CASE namedLocation.form = "absent" -> ""
      [] namedLocation.form = "legacy" ->
            IF viewer = owner THEN namedLocation.label ELSE ""
      [] namedLocation.mode = "private" ->
            IF viewer = owner THEN namedLocation.label ELSE ""
      [] namedLocation.mode = "all" ->
            IF LevelIndex(level) >= LevelIndex("city") THEN namedLocation.label
            ELSE ""
      [] namedLocation.mode = "selected" ->
            IF viewer \in namedLocation.ids THEN namedLocation.label ELSE ""
      [] OTHER -> ""

\* Mutant: a bare-string label shown to everyone.
filter_named_location_legacy_public(namedLocation, level, viewer, owner) ==
    CASE namedLocation.form = "absent" -> ""
      [] namedLocation.form = "legacy" -> namedLocation.label
      [] namedLocation.mode = "private" ->
            IF viewer = owner THEN namedLocation.label ELSE ""
      [] namedLocation.mode = "all" -> namedLocation.label
      [] namedLocation.mode = "selected" ->
            IF viewer \in namedLocation.ids THEN namedLocation.label ELSE ""
      [] OTHER -> ""

\* Disclosure filter, step 3: the label shown to the viewer, "" when none is.
filter_named_location(namedLocation, level, viewer, owner) ==
    CASE namedLocation.form = "absent" -> ""
      [] namedLocation.form = "legacy" ->
            IF viewer = owner THEN namedLocation.label ELSE ""
      [] namedLocation.mode = "private" ->
            IF viewer = owner THEN namedLocation.label ELSE ""
      [] namedLocation.mode = "all" -> namedLocation.label
      [] namedLocation.mode = "selected" ->
            IF viewer \in namedLocation.ids THEN namedLocation.label ELSE ""
      [] OTHER -> ""

\* Disclosure filter: the view of a raw record for a viewer granted `level`.
filter_location(raw, level, viewer, owner) ==
    [hierarchy |-> filter_hierarchy(raw.hierarchy, level),
     namedLocation |-> filter_named_location(raw.namedLocation, level, viewer, owner),
     timestamp |-> raw.timestamp]

\* getContactLocation(viewer, ownerId), step 1: the contact gate.
get_contact_location(t, viewer, owner_id) ==
    /\ CanStart(t)
    /\ LET R(status) == Response("get_contact_location", "gate", viewer, owner_id, 0,
                                 status, [kind |-> "reads", stores |-> {}])
       IN  IF owner_id \notin get_user_contacts(viewer)
           THEN resp' = R(403) /\ UNCHANGED threads
           ELSE /\ resp' = R(0)
                /\ Goto(t, [Idle EXCEPT !.op = "get_contact_location",
                                !.pc = "read", !.user = viewer,
                                !.target = owner_id])
    /\ UNCHANGED <<db, now>>

\* getContactLocation, steps 2 to 6: the level the owner granted the viewer, the raw
\* record, the filtered view.
get_contact_location_read(t) ==
    /\ At(t, "get_contact_location", "read")
    /\ LET viewer == threads[t].user
           owner_id == threads[t].target
           level == get_permission_level(owner_id, viewer)
           raw == locations[owner_id]
       IN  resp' = Response("get_contact_location", "read", viewer, owner_id, 0, 200,
                     [kind |-> "location",
                      stores |-> {"permissions", "locations"},
                      permissionLevel |-> level,
                      location |-> IF raw = NoRecord THEN NoRecord
                                   ELSE filter_location(raw, level, viewer, owner_id)])
    /\ Done(t)
    /\ UNCHANGED <<db, now>>

\* ------------------------------------------------------------ encrypted locations

\* An entry of the "locations" array of POST /api/location/encrypted; "" stands
\* for a missing contactId or blob.
EncryptedEntry(contactId, blob) == [contactId |-> contactId, blob |-> blob]

\* `if not contact_id or not blob: continue`
valid_entry(loc) == loc.contactId # "" /\ loc.blob # ""

\* The entries of the array from the first one the loop does not skip unread.
RECURSIVE skip_invalid(_)
skip_invalid(locs) ==
    IF locs = <<>> THEN <<>>
    ELSE IF valid_entry(Head(locs)) THEN locs
    ELSE skip_invalid(Tail(locs))

\* Mutant: a plain INSERT, the row of an earlier publish kept.
upsert_encrypted_location_keep(table, from_user_id, to_user_id, blob) ==
    table \cup {[from_user_id |-> from_user_id, to_user_id |-> to_user_id,
                 encrypted_blob |-> blob, updated_at |-> now]}

\* INSERT INTO encrypted_locations ... ON CONFLICT(from_user_id, to_user_id)
\* DO UPDATE SET encrypted_blob = excluded.encrypted_blob: the table afterwards.
upsert_encrypted_location(table, from_user_id, to_user_id, blob) ==
    {r \in table : ~(r.from_user_id = from_user_id /\ r.to_user_id = to_user_id)}
    \cup {[from_user_id |-> from_user_id, to_user_id |-> to_user_id,
           encrypted_blob |-> blob, updated_at |-> now]}

\* The rest of the loop once its transaction is open: each valid entry for a
\* contact is upserted, the others are skipped.
RECURSIVE publish_remaining(_, _, _)
publish_remaining(table, u, locs) ==
    IF locs = <<>> THEN table
    ELSE LET loc == Head(locs)
         IN  IF valid_entry(loc) /\ loc.contactId \in get_user_contacts(u)
             THEN publish_remaining(
                      upsert_encrypted_location(table, u, loc.contactId, loc.blob),
                      u, Tail(locs))
             ELSE publish_remaining(table, u, Tail(locs))

\* Mutant: the contact relationship not verified.
publish_check_unverified(t, u, locs, count) ==
    LET rest == skip_invalid(locs)
        checked == IF rest = <<>> THEN "" ELSE Head(rest).contactId
        R(status) == Response("publish_encrypted_locations", "check", u, checked, 0,
                              status, [kind |-> "published", count |-> count,
                                       replaced |-> {}])
    IN  IF rest = <<>>
        THEN resp' = R(200) /\ Done(t)
        ELSE /\ resp' = R(0)
             /\ Goto(t, [Idle EXCEPT !.op = "publish_encrypted_locations",
                             !.pc = "write", !.user = u, !.id = count,
                             !.locs = rest])

\* The loop of publish_encrypted_locations up to its next contact check: entries
\* without contactId or blob are skipped; the first other entry has its contact
\* relationship verified (a SELECT, outside any transaction while nothing has
\* been written). `count` is len(locations).
publish_check(t, u, locs, count) ==
    LET rest == skip_invalid(locs)
        checked == IF rest = <<>> THEN "" ELSE Head(rest).contactId
        R(status) == Response("publish_encrypted_locations", "check", u, checked, 0,
                              status, [kind |-> "published", count |-> count,
                                       replaced |-> {}])
        Loop(pc, remaining) ==
            Goto(t, [Idle EXCEPT !.op = "publish_encrypted_locations", !.pc = pc,
                            !.user = u, !.id = count, !.locs = remaining])
    IN  IF rest = <<>>
        THEN resp' = R(200) /\ Done(t)
        ELSE IF Head(rest).contactId \in get_user_contacts(u)
        THEN resp' = R(0) /\ Loop("write", rest)
        ELSE IF skip_invalid(Tail(rest)) = <<>>
        THEN resp' = R(200) /\ Done(t)
        ELSE resp' = R(0) /\ Loop("check", Tail(rest))

\* POST /api/location/encrypted with a "locations" array, up to the first contact
\* check.
publish_encrypted_locations(t, u, entries) ==
    /\ CanStart(t)
    /\ publish_check(t, u, entries, Len(entries))
    /\ UNCHANGED <<db, now>>

\* ... the contact check of a later entry, the earlier ones having been skipped.
publish_encrypted_locations_check(t) ==
    /\ At(t, "publish_encrypted_locations", "check")
    /\ publish_check(t, threads[t].user, threads[t].locs, threads[t].id)
    /\ UNCHANGED <<db, now>>

\* ... the first INSERT opens the transaction; the rest of the loop and the commit
\* follow within it.
publish_encrypted_locations_write(t) ==
    /\ At(t, "publish_encrypted_locations", "write")
    /\ LET u == threads[t].user
           locs == threads[t].locs
           first == Head(locs)
       IN  encrypted_locations' =
               publish_remaining(
                   upsert_encrypted_location(encrypted_locations, u,
                                             first.contactId, first.blob),
                   u, Tail(locs))
    /\ resp' = Response("publish_encrypted_locations", "write", threads[t].user, "",
                        0, 200,
                        [kind |-> "published", count |-> threads[t].id,
                         replaced |-> encrypted_locations \ encrypted_locations'])
    /\ Done(t)
    /\ UNCHANGED <<users, user_seq, contacts, contact_seq, permissions,
                   locations, devices, device_seq, transfers, transfer_seq,
                   now>>

\* What get_user_contacts returns as a list: one element per accepted row of the
\* user, here the row's id with the contact's id.
get_user_contacts_rows(user_id) ==
    {[row |-> c.id,
      contact_id |-> IF c.requester_id = user_id THEN c.recipient_id
                     ELSE c.requester_id] :
        c \in {r \in contacts :
                 /\ (r.requester_id = user_id \/ r.recipient_id = user_id)
                 /\ r.status = "accepted"}}

\* Mutant: stale from the expiry time on.
is_stale_inclusive(updated_at, expiry_time) == updated_at <= expiry_time

\* `updated_at and updated_at < expiry_time` (updated_at is never NULL: every
\* INSERT and UPDATE of the table sets it)
is_stale(updated_at, expiry_time) == updated_at < expiry_time

\* No encryptedLocation in an entry: None
NoEncryptedLocation == [blob |-> "null", updated_at |-> -1, stale |-> FALSE]

\* Mutant: the row is looked up by its publisher alone.
encrypted_location_any_recipient(from_user_id, to_user_id, expiry_time) ==
    LET rows == {r \in encrypted_locations : r.from_user_id = from_user_id}
        enc_row == CHOOSE r \in rows : TRUE
    IN  IF rows = {} THEN NoEncryptedLocation
        ELSE [blob |-> enc_row.encrypted_blob,
              updated_at |-> enc_row.updated_at,
              stale |-> is_stale(enc_row.updated_at, expiry_time)]

\* SELECT encrypted_blob, updated_at ... WHERE from_user_id = ? AND to_user_id = ?,
\* fetchone, and the encryptedLocation made of it: None, or blob, updated_at, stale
encrypted_location(from_user_id, to_user_id, expiry_time) ==
    LET rows == {r \in encrypted_locations :
                    r.from_user_id = from_user_id /\ r.to_user_id = to_user_id}
        enc_row == CHOOSE r \in rows : TRUE
    IN  IF rows = {} THEN NoEncryptedLocation
        ELSE [blob |-> enc_row.encrypted_blob,
              updated_at |-> enc_row.updated_at,
              stale |-> is_stale(enc_row.updated_at, expiry_time)]

\* GET /api/contacts/encrypted: the contact ids first; an empty list is answered
\* at once.
get_contacts_encrypted(t, u) ==
    /\ CanStart(t)
    /\ LET rows == get_user_contacts_rows(u)
           R(status, body) == Response("get_contacts_encrypted", "contacts", u, "",
                                       0, status, body)
       IN  IF rows = {}
           THEN /\ resp' = R(200, [kind |-> "contacts", contacts |-> {}])
                /\ UNCHANGED threads
           ELSE /\ resp' = R(0, [kind |-> "ids", rows |-> rows])
                /\ Goto(t, [Idle EXCEPT !.op = "get_contacts_encrypted",
                                !.pc = "rows", !.user = u, !.rows = rows,
                                !.expiry_time = now - LOCATION_EXPIRY_MINUTES])
    /\ UNCHANGED <<db, now>>

\* ... then one iteration of `for contact_id in contact_ids` per step, in the
\* order of the rows: an element whose users row is gone is skipped, any other
\* gets an entry with the permission levels and the blob the contact published
\* for the caller. An entry keeps the element's row id, so that two elements
\* give two entries. After the last element the list is returned.
get_contacts_encrypted_rows(t) ==
    /\ At(t, "get_contacts_encrypted", "rows")
    /\ LET u == threads[t].user
           r == CHOOSE x \in threads[t].rows :
                    \A y \in threads[t].rows : x.row <= y.row
           contact_data ==
               [row |-> r.row,
                id |-> r.contact_id,
                permissionGranted |-> get_permission_level(u, r.contact_id),
                permissionReceived |-> get_permission_level(r.contact_id, u),
                encryptedLocation |->
                    encrypted_location(r.contact_id, u, threads[t].expiry_time)]
           listing == IF get_user_by_id(r.contact_id) = NoUser
                      THEN threads[t].out
                      ELSE threads[t].out \cup {contact_data}
           rest == threads[t].rows \ {r}
       IN  IF rest = {}
           THEN /\ resp' = Response("get_contacts_encrypted", "rows", u, "", 0,
                                    200, [kind |-> "contacts", contacts |-> listing,
                                          expiry_time |-> threads[t].expiry_time])
                /\ Done(t)
           ELSE /\ resp' = Response("get_contacts_encrypted", "rows", u, "", 0,
                                    0, [kind |-> "ids", rows |-> rest])
                /\ Goto(t, [threads[t] EXCEPT !.rows = rest, !.out = listing])
    /\ UNCHANGED <<db, now>>

\* ------------------------------------------------------------ contact details

\* The public keys a caller may register: one of 44 characters, one too short.
PublicKeyInputs == {"key44", "short"}

\* `if not public_key or len(public_key) != 44`
valid_public_key(public_key) == public_key = "key44"

\* POST /api/identity/register: UPDATE users SET public_key = ? WHERE id = ?
register_public_key(t, u, public_key) ==
    /\ CanStart(t)
    /\ IF ~valid_public_key(public_key)
       THEN /\ resp' = Response("register_public_key", "update", u, "", 0, 400,
                                NoBody)
            /\ UNCHANGED users
       ELSE /\ users' = {IF r.id = u THEN [r EXCEPT !.public_key = public_key]
                         ELSE r : r \in users}
            /\ resp' = Response("register_public_key", "update", u, "", 0, 200,
                                NoBody)
    /\ UNCHANGED <<user_seq, contacts, contact_seq, permissions, locations,
                   encrypted_locations, devices, device_seq, transfers,
                   transfer_seq, now, threads>>

\* GET /api/contacts/<contact_id>/permission, up to the contact check.
get_contact_permission(t, u, contact_id) ==
    /\ CanStart(t)
    /\ LET R(status) == Response("get_contact_permission", "check", u, contact_id,
                                 0, status, NoBody)
       IN  IF contact_id \notin get_user_contacts(u)
           THEN resp' = R(403) /\ UNCHANGED threads
           ELSE /\ resp' = R(0)
                /\ Goto(t, [Idle EXCEPT !.op = "get_contact_permission",
                                !.pc = "read", !.user = u, !.target = contact_id])
    /\ UNCHANGED <<db, now>>

\* ... then the two levels.
get_contact_permission_read(t) ==
    /\ At(t, "get_contact_permission", "read")
    /\ LET u == threads[t].user
           contact_id == threads[t].target
       IN  resp' = Response("get_contact_permission", "read", u, contact_id, 0, 200,
                            [kind |-> "permission",
                             permissionGranted |-> get_permission_level(u, contact_id),
                             permissionReceived |-> get_permission_level(contact_id, u)])
    /\ Done(t)
    /\ UNCHANGED <<db, now>>

\* GET /api/contacts/<contact_id>/public-key, up to the contact check.
get_contact_public_key(t, u, contact_id) ==
    /\ CanStart(t)
    /\ LET R(status) == Response("get_contact_public_key", "check", u, contact_id,
                                 0, status, NoBody)
       IN  IF contact_id \notin get_user_contacts(u)
           THEN resp' = R(403) /\ UNCHANGED threads
           ELSE /\ resp' = R(0)
                /\ Goto(t, [Idle EXCEPT !.op = "get_contact_public_key",
                                !.pc = "read", !.user = u, !.target = contact_id])
    /\ UNCHANGED <<db, now>>

\* ... then SELECT public_key, name FROM users WHERE id = ?
get_contact_public_key_read(t) ==
    /\ At(t, "get_contact_public_key", "read")
    /\ LET u == threads[t].user
           contact_id == threads[t].target
           row == get_user_by_id(contact_id)
       IN  IF row = NoUser
           THEN resp' = Response("get_contact_public_key", "read", u, contact_id, 0,
                                 404, NoBody)
           ELSE resp' = Response("get_contact_public_key", "read", u, contact_id, 0,
                                 200, [kind |-> "publicKey",
                                       publicKey |-> row.public_key])
    /\ Done(t)
    /\ UNCHANGED <<db, now>>

\* ------------------------------------------------------------ accounts

\* secrets.token_hex(8): the id of the n-th user created
NewUserIds == <<"u1", "u2", "u3", "u4">>

\* `if not email or '@' not in email`
valid_email(email) == email \notin {"", "not-an-email"}

\* Mutant: no UNIQUE constraint on users.email.
email_taken_unconstrained(email) == FALSE

\* Whether an INSERT or UPDATE giving a users row this email / google_id breaks
\* UNIQUE(email) / the unique index on google_id (WHERE google_id IS NOT NULL).
email_taken(email) == \E u \in users : u.email = email

google_id_taken(google_id, user_id) ==
    \E u \in users : u.id # user_id /\ u.google_id = google_id

\* POST /api/auth/register (with a password and a name that pass validation), up
\* to the check that the email is not registered.
register(t, email) ==
    /\ CanStart(t)
    /\ LET e == strip_lower(email)
           R(status) == Response("register", "check", "", e, 0, status, NoBody)
       IN  IF ~valid_email(e)
           THEN resp' = R(400) /\ UNCHANGED threads
           ELSE IF get_user_by_email(e) # NoUser
           THEN resp' = R(409) /\ UNCHANGED threads
           ELSE /\ resp' = R(0)
                /\ Goto(t, [Idle EXCEPT !.op = "register", !.pc = "insert",
                                !.email = e])
    /\ UNCHANGED <<db, now>>

\* INSERT INTO users (id, email, password_hash, name) under UNIQUE(email); an
\* IntegrityError is not caught (500).
register_insert(t) ==
    /\ At(t, "register", "insert")
    /\ LET e == threads[t].email
           R(user_id, status) == Response("register", "insert", user_id, e, 0,
                                          status, NoBody)
       IN  IF email_taken(e)
           THEN /\ resp' = R("", 500)
                /\ UNCHANGED <<users, user_seq>>
           ELSE /\ user_seq < MaxNewUsers
                /\ user_seq' = user_seq + 1
                /\ users' = users \cup
                       {[id |-> NewUserIds[user_seq + 1], email |-> e,
                         google_id |-> NULL, public_key |-> NULL]}
                /\ resp' = R(NewUserIds[user_seq + 1], 201)
    /\ Done(t)
    /\ UNCHANGED <<contacts, contact_seq, permissions, locations,
                   encrypted_locations, devices, device_seq, transfers,
                   transfer_seq, now>>

\* The end of auth_google for the user it signed in: the response, or first the
\* registration of the device sent with the request.
auth_google_finish(t, pc, user_id, is_new) ==
    IF threads[t].device
    THEN /\ resp' = Response("auth_google", pc, user_id, threads[t].email, 0, 0,
                             [kind |-> "user", isNew |-> is_new])
         /\ Goto(t, [threads[t] EXCEPT !.pc = "device_count", !.user = user_id,
                                       !.is_new = is_new])
    ELSE /\ resp' = Response("auth_google", pc, user_id, threads[t].email, 0, 200,
                             [kind |-> "user", isNew |-> is_new])
         /\ Done(t)

\* POST /api/auth/google with a verified token, up to the lookup of the email.
auth_google(t, email, google_id, device) ==
    /\ CanStart(t)
    /\ LET e == lower(email)
           user == get_user_by_email(e)
           rec == [Idle EXCEPT !.op = "auth_google", !.email = e,
                               !.google_id = google_id, !.device = device]
           R(status) == Response("auth_google", "check", user.id, e, 0, status,
                                 [kind |-> "user", isNew |-> FALSE])
       IN  IF user = NoUser
           THEN /\ resp' = R(0)
                /\ Goto(t, [rec EXCEPT !.pc = "insert"])
           ELSE IF user.google_id = NULL
           THEN /\ resp' = R(0)
                /\ Goto(t, [rec EXCEPT !.pc = "link", !.user = user.id])
           ELSE IF device
           THEN /\ resp' = R(0)
                /\ Goto(t, [rec EXCEPT !.pc = "device_count", !.user = user.id])
           ELSE resp' = R(200) /\ UNCHANGED threads
    /\ UNCHANGED <<db, now>>

\* UPDATE users SET google_id = ? WHERE id = ? under the unique index on google_id.
auth_google_link(t) ==
    /\ At(t, "auth_google", "link")
    /\ LET user_id == threads[t].user
           g == threads[t].google_id
       IN  IF google_id_taken(g, user_id) /\ get_user_by_id(user_id) # NoUser
           THEN /\ resp' = Response("auth_google", "link", user_id,
                                    threads[t].email, 0, 500, NoBody)
                /\ Done(t)
                /\ UNCHANGED users
           ELSE /\ users' = {IF u.id = user_id THEN [u EXCEPT !.google_id = g]
                             ELSE u : u \in users}
                /\ auth_google_finish(t, "link", user_id, FALSE)
    /\ UNCHANGED <<user_seq, contacts, contact_seq, permissions, locations,
                   encrypted_locations, devices, device_seq, transfers,
                   transfer_seq, now>>

\* INSERT INTO users (id, email, password_hash, name, google_id) under UNIQUE(email)
\* and the unique index on google_id.
auth_google_insert(t) ==
    /\ At(t, "auth_google", "insert")
    /\ LET e == threads[t].email
           g == threads[t].google_id
       IN  IF email_taken(e) \/ google_id_taken(g, "")
           THEN /\ resp' = Response("auth_google", "insert", "", e, 0, 500, NoBody)
                /\ Done(t)
                /\ UNCHANGED <<users, user_seq>>
           ELSE /\ user_seq < MaxNewUsers
                /\ user_seq' = user_seq + 1
                /\ users' = users \cup
                       {[id |-> NewUserIds[user_seq + 1], email |-> e,
                         google_id |-> g, public_key |-> NULL]}
                /\ auth_google_finish(t, "insert", NewUserIds[user_seq + 1], TRUE)
    /\ UNCHANGED <<contacts, contact_seq, permissions, locations,
                   encrypted_locations, devices, device_seq, transfers,
                   transfer_seq, now>>

\* ------------------------------------------------------------ devices

\* register_device: SELECT COUNT(*) FROM devices WHERE user_id = ?
is_first_device(user_id) == ~\E d \in devices : d.user_id = user_id

\* register_device called by auth_google: the count of the user's devices.
register_device_count(t) ==
    /\ At(t, "auth_google", "device_count")
    /\ resp' = Response("auth_google", "device_count", threads[t].user,
                        threads[t].email, 0, 0, NoBody)
    /\ Goto(t, [threads[t] EXCEPT !.pc = "device_insert",
                    !.is_first_device = is_first_device(threads[t].user)])
    /\ UNCHANGED <<db, now>>

\* POST /api/devices (with a name that passes validation), up to the count of the
\* user's devices in register_device.
add_device(t, u) ==
    /\ CanStart(t)
    /\ resp' = Response("add_device", "device_count", u, "", 0, 0, NoBody)
    /\ Goto(t, [Idle EXCEPT !.op = "add_device", !.pc = "device_insert", !.user = u,
                    !.is_first_device = is_first_device(u)])
    /\ UNCHANGED <<db, now>>

\* Mutant: every registered device active.
register_device_insert_active(t) ==
    /\ threads[t].op \in {"add_device", "auth_google"}
    /\ threads[t].pc = "device_insert"
    /\ device_seq < MaxDevices
    /\ device_seq' = device_seq + 1
    /\ devices' = devices \cup
           {[id |-> device_seq + 1, user_id |-> threads[t].user,
             is_active |-> TRUE]}
    /\ resp' = Response(threads[t].op, "device_insert", threads[t].user, "",
                        device_seq + 1,
                        IF threads[t].op = "add_device" THEN 201 ELSE 200,
                        [kind |-> "device", isActive |-> TRUE,
                         isNew |-> threads[t].is_new])
    /\ Done(t)
    /\ UNCHANGED <<users, user_seq, contacts, contact_seq, permissions,
                   locations, encrypted_locations, transfers, transfer_seq,
                   now>>

\* register_device: INSERT INTO devices (id, user_id, ..., is_active, last_seen)
\* with is_active = is_first_device, commit, and the response of the route.
register_device_insert(t) ==
    /\ threads[t].op \in {"add_device", "auth_google"}
    /\ threads[t].pc = "device_insert"
    /\ device_seq < MaxDevices
    /\ device_seq' = device_seq + 1
    /\ devices' = devices \cup
           {[id |-> device_seq + 1, user_id |-> threads[t].user,
             is_active |-> threads[t].is_first_device]}
    /\ resp' = Response(threads[t].op, "device_insert", threads[t].user, "",
                        device_seq + 1,
                        IF threads[t].op = "add_device" THEN 201 ELSE 200,
                        [kind |-> "device", isActive |-> threads[t].is_first_device,
                         isNew |-> threads[t].is_new])
    /\ Done(t)
    /\ UNCHANGED <<users, user_seq, contacts, contact_seq, permissions,
                   locations, encrypted_locations, transfers, transfer_seq,
                   now>>

\* Mutant: the device looked up by id alone.
owned_device_any_user(user_id, device_id) ==
    {d \in devices : d.id = device_id}

\* SELECT id FROM devices WHERE id = ? AND user_id = ?
owned_device(user_id, device_id) ==
    {d \in devices : d.id = device_id /\ d.user_id = user_id}

\* POST /api/devices/<device_id>/activate: set_active_device up to the check that
\* the device belongs to the user.
activate_device(t, u, device_id) ==
    /\ CanStart(t)
    /\ LET R(status) == Response("activate_device", "check", u, "", device_id,
                                 status, NoBody)
       IN  IF owned_device(u, device_id) = {}
           THEN resp' = R(404) /\ UNCHANGED threads
           ELSE /\ resp' = R(0)
                /\ Goto(t, [Idle EXCEPT !.op = "activate_device", !.pc = "update",
                                !.user = u, !.id = device_id])
    /\ UNCHANGED <<db, now>>

\* UPDATE devices SET is_active = FALSE WHERE user_id = ?; UPDATE devices SET
\* is_active = TRUE, last_seen = ? WHERE id = ?; commit.
activate_device_update(t) ==
    /\ At(t, "activate_device", "update")
    /\ devices' = {IF d.id = threads[t].id THEN [d EXCEPT !.is_active = TRUE]
                   ELSE IF d.user_id = threads[t].user
                   THEN [d EXCEPT !.is_active = FALSE]
                   ELSE d : d \in devices}
    /\ resp' = Response("activate_device", "update", threads[t].user, "",
                        threads[t].id, 200, NoBody)
    /\ Done(t)
    /\ UNCHANGED <<users, user_seq, contacts, contact_seq, permissions,
                   locations, encrypted_locations, device_seq, transfers,
                   transfer_seq, now>>

\* DELETE /api/devices/<device_id>: DELETE FROM devices WHERE id = ? AND
\* user_id = ?, commit; 404 when no row was deleted.
remove_device(t, u, device_id) ==
    /\ CanStart(t)
    /\ devices' = devices \ owned_device(u, device_id)
    /\ resp' = Response("remove_device", "delete", u, "", device_id,
                        IF owned_device(u, device_id) # {} THEN 200 ELSE 404,
                        NoBody)
    /\ UNCHANGED <<users, user_seq, contacts, contact_seq, permissions,
                   locations, encrypted_locations, device_seq, transfers,
                   transfer_seq, now, threads>>

\* ------------------------------------------------------------ identity transfers

\* Minutes a transfer session lives.
TRANSFER_EXPIRY_MINUTES == 10

\* No transfer row: None
NoTransfer ==
    [id |-> 0, code |-> 0, source_user_id |-> "", source_device_id |-> 0,
     target_device_id |-> 0, status |-> "", encrypted_identity |-> NULL,
     expires_at |-> 0]

\* get_current_user: the users row of the token's user id, None once it is deleted
require_auth(user_id) == get_user_by_id(user_id) # NoUser

\* Mutant: the lookup by code without the expiry condition.
get_transfer_by_code_any_time(code) ==
    LET rows == {r \in transfers :
                    /\ r.code = code
                    /\ \E u \in users : u.id = r.source_user_id
                    /\ \E d \in devices : d.id = r.source_device_id}
    IN  IF rows = {} THEN NoTransfer ELSE CHOOSE r \in rows : TRUE

\* SELECT t.* FROM transfers t JOIN users u ... JOIN devices d ...
\* WHERE t.code = ? AND t.expires_at > now
get_transfer_by_code(code) ==
    LET rows == {r \in transfers :
                    /\ r.code = code
                    /\ r.expires_at > now
                    /\ \E u \in users : u.id = r.source_user_id
                    /\ \E d \in devices : d.id = r.source_device_id}
    IN  IF rows = {} THEN NoTransfer ELSE CHOOSE r \in rows : TRUE

\* SELECT * FROM transfers WHERE id = ?
get_transfer_by_id(transfer_id) ==
    LET rows == {r \in transfers : r.id = transfer_id}
    IN  IF rows = {} THEN NoTransfer ELSE CHOOSE r \in rows : TRUE

\* Mutant: the row by id, whoever its source user is.
get_transfer_by_id_any_owner(transfer_id, user_id) ==
    LET rows == {r \in transfers : r.id = transfer_id}
    IN  IF rows = {} THEN NoTransfer ELSE CHOOSE r \in rows : TRUE

\* SELECT * FROM transfers WHERE id = ? AND source_user_id = ?
get_transfer_by_id_of(transfer_id, user_id) ==
    LET rows == {r \in transfers :
                    r.id = transfer_id /\ r.source_user_id = user_id}
    IN  IF rows = {} THEN NoTransfer ELSE CHOOSE r \in rows : TRUE

\* POST /api/transfers, up to the check that the device is the caller's.
create_transfer(t, u, device_id) ==
    /\ CanStart(t)
    /\ transfer_seq < MaxTransferTokens
    /\ LET R(status) == Response("create_transfer", "check", u, "", 0, status, NoBody)
       IN  IF ~require_auth(u)
           THEN resp' = R(401) /\ UNCHANGED threads
           ELSE IF device_id = 0
           THEN resp' = R(400) /\ UNCHANGED threads
           ELSE IF ~\E d \in devices : d.user_id = u /\ d.id = device_id
           THEN resp' = R(404) /\ UNCHANGED threads
           ELSE /\ resp' = R(0)
                /\ Goto(t, [Idle EXCEPT !.op = "create_transfer", !.pc = "cleanup",
                                !.user = u, !.id = device_id])
    /\ UNCHANGED <<db, now>>

\* ... cleanup_expired_transfers: DELETE FROM transfers WHERE expires_at < now
cleanup_expired_transfers(t) ==
    /\ At(t, "create_transfer", "cleanup")
    /\ transfers' = {r \in transfers : ~(r.expires_at < now)}
    /\ resp' = Response("create_transfer", "cleanup", threads[t].user, "", 0, 0,
                        [kind |-> "deleted", rows |-> transfers \ transfers'])
    /\ Goto(t, [threads[t] EXCEPT !.pc = "insert"])
    /\ UNCHANGED <<users, user_seq, contacts, contact_seq, permissions, locations,
                   encrypted_locations, devices, device_seq, transfer_seq, now>>

\* ... create_transfer_session: a new id and a code no row has, status pending,
\* expiry TRANSFER_EXPIRY_MINUTES from now. The code of a session is modelled by
\* the number that is its id.
create_transfer_session(t) ==
    /\ At(t, "create_transfer", "insert")
    /\ transfer_seq < MaxTransferTokens
    /\ LET transfer_id == transfer_seq + 1
           row == [id |-> transfer_id, code |-> transfer_id,
                   source_user_id |-> threads[t].user,
                   source_device_id |-> threads[t].id,
                   target_device_id |-> 0, status |-> "pending",
                   encrypted_identity |-> NULL,
                   expires_at |-> now + TRANSFER_EXPIRY_MINUTES]
       IN  /\ transfers' = transfers \cup {row}
           /\ transfer_seq' = transfer_id
           /\ resp' = Response("create_transfer", "insert", threads[t].user, "",
                               transfer_id, 201,
                               [kind |-> "transfer", status |-> "pending",
                                expires_at |-> row.expires_at])
    /\ Done(t)
    /\ UNCHANGED <<users, user_seq, contacts, contact_seq, permissions, locations,
                   encrypted_locations, devices, device_seq, now>>

\* GET /api/transfers/<transfer_id>
get_transfer_status(t, u, transfer_id) ==
    /\ CanStart(t)
    /\ LET transfer == get_transfer_by_id_of(transfer_id, u)
           R(status, body) == Response("get_transfer_status", "read", u, "",
                                       transfer_id, status, body)
       IN  resp' = IF ~require_auth(u) THEN R(401, NoBody)
                   ELSE IF transfer = NoTransfer THEN R(404, NoBody)
                   ELSE IF transfer.expires_at < now THEN R(410, NoBody)
                   ELSE R(200, [kind |-> "transfer", status |-> transfer.status,
                                expires_at |-> transfer.expires_at])
    /\ UNCHANGED <<db, now, threads>>

\* `if not code or len(code) != 6`: code 0 stands for a code of another length
valid_code(code) == code # 0

\* POST /api/transfers/claim, no authentication: the validation, the lookup of
\* the code and the temporary device id, a new token.
claim_transfer_request(t, code, device_name) ==
    /\ CanStart(t)
    /\ LET transfer == get_transfer_by_code(code)
           R(status) == Response("claim_transfer_request", "code", "", device_name,
                                 transfer.id, status, NoBody)
       IN  IF ~valid_code(code) \/ device_name = ""
           THEN resp' = R(400) /\ UNCHANGED <<threads, transfer_seq>>
           ELSE IF transfer = NoTransfer
           THEN resp' = R(404) /\ UNCHANGED <<threads, transfer_seq>>
           ELSE /\ transfer_seq < MaxTransferTokens
                /\ transfer_seq' = transfer_seq + 1
                /\ resp' = R(0)
                /\ Goto(t, [Idle EXCEPT !.op = "claim_transfer_request",
                                !.pc = "claim", !.id = transfer.id,
                                !.target = device_name,
                                !.temp_device_id = transfer_seq + 1])
    /\ UNCHANGED <<users, user_seq, contacts, contact_seq, permissions, locations,
                   encrypted_locations, devices, device_seq, transfers, now>>

\* ... claim_transfer: the row by id; None unless it is pending
claim_transfer(t) ==
    /\ At(t, "claim_transfer_request", "claim")
    /\ LET transfer == get_transfer_by_id(threads[t].id)
           R(status) == Response("claim_transfer_request", "claim", "",
                                 threads[t].target, threads[t].id, status,
                                 [kind |-> "claim", status |-> transfer.status,
                                  tempDeviceId |-> threads[t].temp_device_id])
       IN  IF transfer = NoTransfer \/ transfer.status # "pending"
           THEN resp' = R(409) /\ Done(t)
           ELSE resp' = R(0) /\ Goto(t, [threads[t] EXCEPT !.pc = "update"])
    /\ UNCHANGED <<db, now>>

\* Mutant: the UPDATE by id alone, whatever the status.
claim_transfer_update_unguarded(t) ==
    /\ At(t, "claim_transfer_request", "update")
    /\ transfers' =
          {IF r.id = threads[t].id
           THEN [r EXCEPT !.target_device_id = threads[t].temp_device_id,
                          !.status = "claimed"]
           ELSE r : r \in transfers}
    /\ resp' = Response("claim_transfer_request", "update", "", threads[t].target,
                        threads[t].id,
                        IF \E r \in transfers' : r.id = threads[t].id
                        THEN 200 ELSE 409,
                        [kind |-> "claim",
                         tempDeviceId |-> threads[t].temp_device_id])
    /\ Done(t)
    /\ UNCHANGED <<users, user_seq, contacts, contact_seq, permissions, locations,
                   encrypted_locations, devices, device_seq, transfer_seq, now>>

\* ... UPDATE transfers SET target_device_id = ?, status = 'claimed'
\* WHERE id = ? AND status = 'pending', then the row is read again: 409 when it is
\* gone, else the answer with transferId and tempDeviceId.
claim_transfer_update(t) ==
    /\ At(t, "claim_transfer_request", "update")
    /\ transfers' =
          {IF r.id = threads[t].id /\ r.status = "pending"
           THEN [r EXCEPT !.target_device_id = threads[t].temp_device_id,
                          !.status = "claimed"]
           ELSE r : r \in transfers}
    /\ resp' = Response("claim_transfer_request", "update", "", threads[t].target,
                        threads[t].id,
                        IF \E r \in transfers' : r.id = threads[t].id
                        THEN 200 ELSE 409,
                        [kind |-> "claim",
                         tempDeviceId |-> threads[t].temp_device_id])
    /\ Done(t)
    /\ UNCHANGED <<users, user_seq, contacts, contact_seq, permissions, locations,
                   encrypted_locations, devices, device_seq, transfer_seq, now>>

\* POST /api/transfers/<transfer_id>/approve: the identity is required, then
\* approve_transfer reads the caller's row; None unless it is claimed
approve_transfer_request(t, u, transfer_id, encrypted_identity) ==
    /\ CanStart(t)
    /\ LET transfer == get_transfer_by_id_of(transfer_id, u)
           R(status) == Response("approve_transfer_request", "check", u, "",
                                 transfer_id, status, NoBody)
       IN  IF ~require_auth(u)
           THEN resp' = R(401) /\ UNCHANGED threads
           ELSE IF encrypted_identity = ""
           THEN resp' = R(400) /\ UNCHANGED threads
           ELSE IF transfer = NoTransfer \/ transfer.status # "claimed"
           THEN resp' = R(404) /\ UNCHANGED threads
           ELSE /\ resp' = R(0)
                /\ Goto(t, [Idle EXCEPT !.op = "approve_transfer_request",
                                !.pc = "update", !.user = u, !.id = transfer_id,
                                !.encrypted_identity = encrypted_identity])
    /\ UNCHANGED <<db, now>>

\* ... UPDATE transfers SET encrypted_identity = ?, status = 'approved'
\* WHERE id = ? AND source_user_id = ? AND status = 'claimed', then the row is
\* read again: 404 when it is gone, else success with its status.
approve_transfer(t) ==
    /\ At(t, "approve_transfer_request", "update")
    /\ transfers' =
          {IF /\ r.id = threads[t].id
              /\ r.source_user_id = threads[t].user
              /\ r.status = "claimed"
           THEN [r EXCEPT !.encrypted_identity = threads[t].encrypted_identity,
                          !.status = "approved"]
           ELSE r : r \in transfers}
    /\ LET rows == {r \in transfers' : r.id = threads[t].id
                                       /\ r.source_user_id = threads[t].user}
       IN  resp' = Response("approve_transfer_request", "update", threads[t].user,
                            "", threads[t].id,
                            IF rows = {} THEN 404 ELSE 200,
                            [kind |-> "approve",
                             status |-> IF rows = {} THEN ""
                                        ELSE (CHOOSE r \in rows : TRUE).status])
    /\ Done(t)
    /\ UNCHANGED <<users, user_seq, contacts, contact_seq, permissions, locations,
                   encrypted_locations, devices, device_seq, transfer_seq, now>>

\* POST /api/transfers/<transfer_id>/cancel: DELETE FROM transfers
\* WHERE id = ? AND source_user_id = ?
cancel_transfer_request(t, u, transfer_id) ==
    /\ CanStart(t)
    /\ IF ~require_auth(u)
       THEN /\ resp' = Response("cancel_transfer_request", "delete", u, "",
                                transfer_id, 401, NoBody)
            /\ UNCHANGED transfers
       ELSE /\ transfers' = {r \in transfers :
                                ~(r.id = transfer_id /\ r.source_user_id = u)}
            /\ resp' = Response("cancel_transfer_request", "delete", u, "",
                                transfer_id,
                                IF transfers' # transfers THEN 200 ELSE 404, NoBody)
    /\ UNCHANGED <<users, user_seq, contacts, contact_seq, permissions, locations,
                   encrypted_locations, devices, device_seq, transfer_seq, now,
                   threads>>

\* GET /api/transfers/<transfer_id>/receive, no authentication: the row, the
\* expiry check and the answer by status; the identity of an approved row is
\* kept for the answer.
receive_transfer_identity(t, transfer_id) ==
    /\ CanStart(t)
    /\ LET transfer == get_transfer_by_id(transfer_id)
           R(status, body) == Response("receive_transfer_identity", "read", "", "",
                                       transfer_id, status, body)
           S == [kind |-> "receive", status |-> transfer.status,
                 expires_at |-> transfer.expires_at]
       IN  IF transfer = NoTransfer
           THEN resp' = R(404, NoBody) /\ UNCHANGED threads
           ELSE IF transfer.expires_at < now
           THEN resp' = R(410, S) /\ UNCHANGED threads
           ELSE IF transfer.status = "claimed"
           THEN resp' = R(200, S) /\ UNCHANGED threads
           ELSE IF transfer.status = "approved"
           THEN /\ resp' = R(0, S)
                /\ Goto(t, [Idle EXCEPT !.op = "receive_transfer_identity",
                                !.pc = "complete", !.id = transfer_id,
                                !.encrypted_identity = transfer.encrypted_identity])
           ELSE IF transfer.status = "completed"
           THEN resp' = R(410, S) /\ UNCHANGED threads
           ELSE resp' = R(400, S) /\ UNCHANGED threads
    /\ UNCHANGED <<db, now>>

\* ... complete_transfer: UPDATE transfers SET status = 'completed'
\* WHERE id = ? AND status = 'approved', and the answer with the identity
complete_transfer(t) ==
    /\ At(t, "receive_transfer_identity", "complete")
    /\ transfers' =
          {IF r.id = threads[t].id /\ r.status = "approved"
           THEN [r EXCEPT !.status = "completed"]
           ELSE r : r \in transfers}
    /\ resp' = Response("receive_transfer_identity", "complete", "", "",
                        threads[t].id, 200,
                        [kind |-> "identity",
                         encryptedIdentity |-> threads[t].encrypted_identity])
    /\ Done(t)
    /\ UNCHANGED <<users, user_seq, contacts, contact_seq, permissions, locations,
                   encrypted_locations, devices, device_seq, transfer_seq, now>>

\* ------------------------------------------------------------ account deletion

\* check_password_hash against the hash stored at registration: every fixture
\* user registered with "password123"
check_password_hash(user_id, password) == password = "password123"

\* POST /api/auth/delete-account, up to the password check (the users row read
\* for the hash is the one require_auth has just found).
delete_account(t, u, password) ==
    /\ CanStart(t)
    /\ LET R(status) == Response("delete_account", "check", u, "", 0, status, NoBody)
       IN  IF ~require_auth(u)
           THEN resp' = R(401) /\ UNCHANGED threads
           ELSE IF password = ""
           THEN resp' = R(400) /\ UNCHANGED threads
           ELSE IF ~check_password_hash(u, password)
           THEN resp' = R(401) /\ UNCHANGED threads
           ELSE /\ resp' = R(0)
                /\ Goto(t, [Idle EXCEPT !.op = "delete_account", !.pc = "delete",
                                !.user = u])
    /\ UNCHANGED <<db, now>>

\* ... the four DELETEs and the commit: the encrypted locations from or to the
\* user, the permissions the user granted or was granted, the contacts rows of
\* the user, the users row.
delete_account_delete(t) ==
    /\ At(t, "delete_account", "delete")
    /\ LET user_id == threads[t].user
       IN  /\ encrypted_locations' =
                 {r \in encrypted_locations :
                     ~(r.from_user_id = user_id \/ r.to_user_id = user_id)}
           /\ permissions' =
                 {p \in permissions :
                     ~(p.granter_id = user_id \/ p.grantee_id = user_id)}
           /\ contacts' =
                 {c \in contacts :
                     ~(c.requester_id = user_id \/ c.recipient_id = user_id)}
           /\ users' = {r \in users : r.id # user_id}
           /\ resp' = Response("delete_account", "delete", user_id, "", 0, 200,
                               NoBody)
    /\ Done(t)
    /\ UNCHANGED <<user_seq, contact_seq, locations, devices, device_seq,
                   transfers, transfer_seq, now>>

\* ------------------------------------------------------------ specification

Init ==
    /\ users = {[id |-> u, email |-> EmailOf(u), google_id |-> NULL,
                  public_key |-> NULL] : u \in UserIds}
    /\ user_seq = 0
    /\ contacts = {}
    /\ contact_seq = 0
    /\ permissions = {}
    /\ locations = [u \in UserIds |-> NoRecord]
    /\ encrypted_locations = {}
    /\ devices = {}
    /\ device_seq = 0
    /\ transfers = {}
    /\ transfer_seq = 0
    /\ now = 0
    /\ threads = [t \in Threads |-> Idle]
    /\ resp = NoResponse

\* The users whose requests overlap in Spec, and what they send.
Callers == {"alice", "bob"}

CallerEmails == {"alice@test.com", "bob@test.com"}

CallerLevels == {"city", "street", "invalid_level"}

\* Requests of alice and bob, handled by up to MaxInFlight threads at once.
Next ==
    \E t \in Threads :
        \/ \E u \in Callers, email \in CallerEmails : send_contact_request(t, u, email)
        \/ send_contact_request_insert(t)
        \/ \E u \in Callers, id \in RequestIds : accept_contact_request(t, u, id)
        \/ accept_contact_request_update(t)
        \/ \E u \in Callers, id \in RequestIds : decline_contact_request(t, u, id)
        \/ \E u \in Callers, id \in RequestIds : cancel_contact_request(t, u, id)
        \/ contact_request_delete(t)
        \/ \E u \in Callers, c \in Callers : remove_contact(t, u, c)
        \/ remove_contact_permissions(t)
        \/ \E u \in Callers, c \in Callers, level \in CallerLevels :
              update_contact_permission(t, u, c, level)
        \/ update_contact_permission_upsert(t)
        \/ \E u \in Callers, c \in Callers : get_contact_location(t, u, c)
        \/ get_contact_location_read(t)

Spec == Init /\ [][Next]_vars

\* Requests of every user, one at a time: a request is taken only when no other
\* is being handled.
SeqNext ==
    \/ /\ \A s \in Threads : Free(s)
       /\ \E t \in Threads :
            \/ \E u \in UserIds, email \in EmailInputs :
                  send_contact_request(t, u, email)
            \/ \E u \in UserIds, id \in RequestIds : accept_contact_request(t, u, id)
            \/ \E u \in UserIds, id \in RequestIds : decline_contact_request(t, u, id)
            \/ \E u \in UserIds, id \in RequestIds : cancel_contact_request(t, u, id)
            \/ \E u \in UserIds, c \in ContactIdInputs : remove_contact(t, u, c)
            \/ \E u \in UserIds : get_contacts(t, u)
            \/ \E u \in UserIds : get_contacts_encrypted(t, u)
            \/ \E u \in UserIds, c \in ContactIdInputs, level \in LevelInputs :
                  update_contact_permission(t, u, c, level)
            \/ \E u \in UserIds, c \in ContactIdInputs : get_contact_location(t, u, c)
    \/ \E t \in Threads :
            \/ send_contact_request_insert(t)
            \/ accept_contact_request_update(t)
            \/ contact_request_delete(t)
            \/ remove_contact_permissions(t)
            \/ get_contacts_permissions(t)
            \/ get_contacts_encrypted_rows(t)
            \/ update_contact_permission_upsert(t)
            \/ get_contact_location_read(t)

SeqSpec == Init /\ [][SeqNext]_vars

\* The "locations" arrays a caller posts: one entry for the other caller with a
\* blob, one without a blob, and an entry for the caller itself (never a contact)
\* followed by one for the other caller.
Blobs == {"blob1", "blob2"}

LocationsInputs(u) ==
    LET others == Callers \ {u}
    IN  {<<EncryptedEntry(c, b)>> : c \in others, b \in Blobs \cup {""}}
        \cup {<<EncryptedEntry(u, "blob1"), EncryptedEntry(c, "blob1")>> :
                c \in others}

\* Contact and encrypted-location requests of alice and bob, handled by up to
\* MaxInFlight threads at once.
EncNext ==
    \E t \in Threads :
        \/ \E u \in Callers, email \in CallerEmails : send_contact_request(t, u, email)
        \/ send_contact_request_insert(t)
        \/ \E u \in Callers, id \in RequestIds : accept_contact_request(t, u, id)
        \/ accept_contact_request_update(t)
        \/ \E u \in Callers, c \in Callers : remove_contact(t, u, c)
        \/ remove_contact_permissions(t)
        \/ \E u \in Callers :
              \E entries \in LocationsInputs(u) :
                  publish_encrypted_locations(t, u, entries)
        \/ publish_encrypted_locations_check(t)
        \/ publish_encrypted_locations_write(t)
        \/ \E u \in Callers : get_contacts_encrypted(t, u)
        \/ get_contacts_encrypted_rows(t)

EncSpec == Init /\ [][EncNext]_vars

\* Time passes: half the expiry period at a time, so that a read falls before,
\* exactly at and after the expiry of a stored location.
Tick ==
    /\ now + LOCATION_EXPIRY_MINUTES \div 2 <= MaxNow
    /\ now' = now + LOCATION_EXPIRY_MINUTES \div 2
    /\ UNCHANGED <<db, threads, resp>>

\* Contact and encrypted-location requests of alice and bob, one at a time, while
\* time passes.
ClockNext ==
    \/ Tick
    \/ /\ \A s \in Threads : Free(s)
       /\ \E t \in Threads :
            \/ \E u \in Callers, email \in CallerEmails :
                  send_contact_request(t, u, email)
            \/ \E u \in Callers, id \in RequestIds : accept_contact_request(t, u, id)
            \/ \E u \in Callers, c \in Callers : remove_contact(t, u, c)
            \/ \E u \in Callers :
                  \E entries \in LocationsInputs(u) :
                      publish_encrypted_locations(t, u, entries)
            \/ \E u \in Callers : get_contacts_encrypted(t, u)
    \/ \E t \in Threads :
            \/ send_contact_request_insert(t)
            \/ accept_contact_request_update(t)
            \/ remove_contact_permissions(t)
            \/ publish_encrypted_locations_check(t)
            \/ publish_encrypted_locations_write(t)
            \/ get_contacts_encrypted_rows(t)

ClockSpec == Init /\ [][ClockNext]_vars

\* What register and auth_google are sent: the email of bob in another case (with
\* and without blanks around it), a new email in two cases, a string that is no
\* email; the subject of the Google token.
RegisterEmails == {" Bob@Test.COM ", "dave@test.com", "Dave@Test.com", "not-an-email"}

GoogleEmails == {"Bob@Test.COM", "dave@test.com", "Dave@Test.com"}

GoogleIds == {"g1", "g2"}

DeviceIdInputs == 1..MaxDevices

\* Registrations and sign-ins, handled by up to MaxInFlight threads at once.
AccountNext ==
    \E t \in Threads :
        \/ \E email \in RegisterEmails : register(t, email)
        \/ register_insert(t)
        \/ \E email \in GoogleEmails, g \in GoogleIds, device \in BOOLEAN :
              auth_google(t, email, g, device)
        \/ auth_google_link(t)
        \/ auth_google_insert(t)
        \/ register_device_count(t)
        \/ register_device_insert(t)

AccountSpec == Init /\ [][AccountNext]_vars

\* Device requests of alice and bob, handled by up to MaxInFlight threads at once.
DeviceNext ==
    \E t \in Threads :
        \/ \E u \in Callers : add_device(t, u)
        \/ register_device_insert(t)
        \/ \E u \in Callers, d \in DeviceIdInputs : activate_device(t, u, d)
        \/ activate_device_update(t)
        \/ \E u \in Callers, d \in DeviceIdInputs : remove_device(t, u, d)

DeviceSpec == Init /\ [][DeviceNext]_vars

\* Device requests of alice and bob, one at a time.
DeviceSeqNext ==
    \/ /\ \A s \in Threads : Free(s)
       /\ \E t \in Threads :
            \/ \E u \in Callers : add_device(t, u)
            \/ \E u \in Callers, d \in DeviceIdInputs : activate_device(t, u, d)
            \/ \E u \in Callers, d \in DeviceIdInputs : remove_device(t, u, d)
    \/ \E t \in Threads :
            \/ register_device_insert(t)
            \/ activate_device_update(t)

DeviceSeqSpec == Init /\ [][DeviceSeqNext]_vars

\* Contact requests of alice and bob and their reads of a contact's permission
\* levels and public key, handled by up to MaxInFlight threads at once.
DetailNext ==
    \E t \in Threads :
        \/ \E u \in Callers, email \in CallerEmails : send_contact_request(t, u, email)
        \/ send_contact_request_insert(t)
        \/ \E u \in Callers, id \in RequestIds : accept_contact_request(t, u, id)
        \/ accept_contact_request_update(t)
        \/ \E u \in Callers, c \in Callers : remove_contact(t, u, c)
        \/ remove_contact_permissions(t)
        \/ \E u \in Callers, c \in Callers : update_contact_permission(t, u, c, "city")
        \/ update_contact_permission_upsert(t)
        \/ \E u \in Callers, k \in PublicKeyInputs : register_public_key(t, u, k)
        \/ \E u \in Callers, c \in UserIds : get_contact_permission(t, u, c)
        \/ get_contact_permission_read(t)
        \/ \E u \in Callers, c \in UserIds : get_contact_public_key(t, u, c)
        \/ get_contact_public_key_read(t)

DetailSpec == Init /\ [][DetailNext]_vars

\* Contact requests of alice and bob with grants and published blobs in the
\* store, handled by up to MaxInFlight threads at once.
FrameNext ==
    \E t \in Threads :
        \/ \E u \in Callers, email \in CallerEmails : send_contact_request(t, u, email)
        \/ send_contact_request_insert(t)
        \/ \E u \in Callers, id \in RequestIds : accept_contact_request(t, u, id)
        \/ accept_contact_request_update(t)
        \/ \E u \in Callers, c \in Callers : remove_contact(t, u, c)
        \/ remove_contact_permissions(t)
        \/ \E u \in Callers, c \in Callers : update_contact_permission(t, u, c, "city")
        \/ update_contact_permission_upsert(t)
        \/ \E u \in Callers :
              \E c \in Callers \ {u} :
                  publish_encrypted_locations(t, u, <<EncryptedEntry(c, "blob1")>>)
        \/ publish_encrypted_locations_write(t)

FrameSpec == Init /\ [][FrameNext]_vars

\* The blob a publisher encrypts for one recipient: it differs from the blob for
\* any other pair, as a NaCl box for the recipient's key does.
ShareBlob(from_user_id, to_user_id) ==
    [alice |-> [alice |-> "", bob |-> "alice-for-bob", carol |-> "alice-for-carol"],
     bob   |-> [alice |-> "bob-for-alice", bob |-> "", carol |-> "bob-for-carol"],
     carol |-> [alice |-> "carol-for-alice", carol |-> "",
                bob |-> "carol-for-bob"]][from_user_id][to_user_id]

\* Contact and encrypted-location requests of alice, bob and carol, one at a
\* time: each publishes for either of the others or for both, each lists.
ShareNext ==
    \/ /\ \A s \in Threads : Free(s)
       /\ \E t \in Threads :
            \/ \E u \in UserIds :
                  \E c \in UserIds \ {u} : send_contact_request(t, u, EmailOf(c))
            \/ \E u \in UserIds, id \in RequestIds : accept_contact_request(t, u, id)
            \/ \E u \in UserIds :
                  \E c \in UserIds \ {u} : remove_contact(t, u, c)
            \/ \E u \in UserIds :
                  \E c \in UserIds \ {u} :
                      publish_encrypted_locations(t, u,
                          <<EncryptedEntry(c, ShareBlob(u, c))>>)
            \/ \E u \in UserIds :
                  \E c \in UserIds \ {u} :
                      \E d \in UserIds \ {u, c} :
                          publish_encrypted_locations(t, u,
                              <<EncryptedEntry(c, ShareBlob(u, c)),
                                EncryptedEntry(d, ShareBlob(u, d))>>)
            \/ \E u \in UserIds : get_contacts_encrypted(t, u)
    \/ \E t \in Threads :
            \/ send_contact_request_insert(t)
            \/ accept_contact_request_update(t)
            \/ remove_contact_permissions(t)
            \/ publish_encrypted_locations_check(t)
            \/ publish_encrypted_locations_write(t)
            \/ get_contacts_encrypted_rows(t)

ShareSpec == Init /\ [][ShareNext]_vars

\* alice and bob have each registered a device, the first and active one of each.
TransferInit ==
    /\ users = {[id |-> u, email |-> EmailOf(u), google_id |-> NULL,
                  public_key |-> NULL] : u \in Callers}
    /\ user_seq = 0
    /\ contacts = {}
    /\ contact_seq = 0
    /\ permissions = {}
    /\ locations = [u \in UserIds |-> NoRecord]
    /\ encrypted_locations = {}
    /\ devices = {[id |-> 1, user_id |-> "alice", is_active |-> TRUE],
                  [id |-> 2, user_id |-> "bob", is_active |-> TRUE]}
    /\ device_seq = 2
    /\ transfers = {}
    /\ transfer_seq = 0
    /\ now = 0
    /\ threads = [t \in Threads |-> Idle]
    /\ resp = NoResponse

\* What the transfer routes are sent: the ids and codes handed out and 0 for a
\* missing device id or a malformed code, a device name or none, the identity a
\* source device encrypted or none.
TransferIdInputs == 1..MaxTransferTokens

CodeInputs == 0..MaxTransferTokens

DeviceNameInputs == {"phone", ""}

IdentityOf(u) ==
    CASE u = "alice" -> "identity-of-alice"
      [] u = "bob"   -> "identity-of-bob"
      [] u = "carol" -> "identity-of-carol"

\* Transfer requests of alice, of bob and of target devices, handled by up to
\* MaxInFlight threads at once.
TransferNext ==
    \E t \in Threads :
        \/ \E u \in Callers, d \in 0..2 : create_transfer(t, u, d)
        \/ cleanup_expired_transfers(t)
        \/ create_transfer_session(t)
        \/ \E u \in Callers, id \in TransferIdInputs : get_transfer_status(t, u, id)
        \/ \E code \in CodeInputs, name \in DeviceNameInputs :
              claim_transfer_request(t, code, name)
        \/ claim_transfer(t)
        \/ claim_transfer_update(t)
        \/ \E u \in Callers, id \in TransferIdInputs :
              \E identity \in {IdentityOf(u), ""} :
                  approve_transfer_request(t, u, id, identity)
        \/ approve_transfer(t)
        \/ \E u \in Callers, id \in TransferIdInputs : cancel_transfer_request(t, u, id)
        \/ \E id \in TransferIdInputs : receive_transfer_identity(t, id)
        \/ complete_transfer(t)

TransferSpec == TransferInit /\ [][TransferNext]_vars

\* Time passes, a transfer's life at a time: a transfer made at 0 is at its
\* expiry time at 10 and past it at 20.
TransferTick ==
    /\ now + TRANSFER_EXPIRY_MINUTES <= MaxTransferNow
    /\ now' = now + TRANSFER_EXPIRY_MINUTES
    /\ UNCHANGED <<db, threads, resp>>

\* Transfer requests of alice, of bob and of target devices, one at a time, while
\* time passes.
TransferClockNext ==
    \/ TransferTick
    \/ /\ \A s \in Threads : Free(s)
       /\ \E t \in Threads :
            \/ \E u \in Callers, d \in 0..2 : create_transfer(t, u, d)
            \/ \E u \in Callers, id \in TransferIdInputs :
                  get_transfer_status(t, u, id)
            \/ \E code \in CodeInputs, name \in DeviceNameInputs :
                  claim_transfer_request(t, code, name)
            \/ \E u \in Callers, id \in TransferIdInputs :
                  \E identity \in {IdentityOf(u), ""} :
                      approve_transfer_request(t, u, id, identity)
            \/ \E u \in Callers, id \in TransferIdInputs :
                  cancel_transfer_request(t, u, id)
            \/ \E id \in TransferIdInputs : receive_transfer_identity(t, id)
    \/ \E t \in Threads :
            \/ cleanup_expired_transfers(t)
            \/ create_transfer_session(t)
            \/ claim_transfer(t)
            \/ claim_transfer_update(t)
            \/ approve_transfer(t)
            \/ complete_transfer(t)

TransferClockSpec == TransferInit /\ [][TransferClockNext]_vars

\* Transfer requests handled by up to MaxInFlight threads at once, while time
\* passes.
TransferRaceNext ==
    \/ TransferTick
    \/ TransferNext

TransferRaceSpec == TransferInit /\ [][TransferRaceNext]_vars

\* The passwords sent to delete_account: the one of the fixture users, another,
\* none.
PasswordInputs == {"password123", "wrong", ""}

\* Requests of alice and bob, who have a device each, one at a time: contact
\* requests, encrypted locations, grants, transfers and account deletion. A
\* request with the token of a deleted user is turned away by require_auth.
DeleteNext ==
    \/ /\ \A s \in Threads : Free(s)
       /\ \E t \in Threads :
            \/ \E u \in Callers, email \in CallerEmails :
                  require_auth(u) /\ send_contact_request(t, u, email)
            \/ \E u \in Callers, id \in RequestIds :
                  require_auth(u) /\ accept_contact_request(t, u, id)
            \/ \E u \in Callers, c \in Callers :
                  require_auth(u) /\ update_contact_permission(t, u, c, "city")
            \/ \E u \in Callers :
                  \E c \in Callers \ {u} :
                      /\ require_auth(u)
                      /\ publish_encrypted_locations(t, u,
                             <<EncryptedEntry(c, ShareBlob(u, c))>>)
            \/ \E u \in Callers, d \in 1..2 : create_transfer(t, u, d)
            \/ \E code \in TransferIdInputs : claim_transfer_request(t, code, "phone")
            \/ \E u \in Callers, id \in TransferIdInputs :
                  approve_transfer_request(t, u, id, IdentityOf(u))
            \/ \E id \in TransferIdInputs : receive_transfer_identity(t, id)
            \/ \E u \in Callers, password \in PasswordInputs :
                  delete_account(t, u, password)
    \/ \E t \in Threads :
            \/ send_contact_request_insert(t)
            \/ accept_contact_request_update(t)
            \/ update_contact_permission_upsert(t)
            \/ publish_encrypted_locations_write(t)
            \/ cleanup_expired_transfers(t)
            \/ create_transfer_session(t)
            \/ claim_transfer(t)
            \/ claim_transfer_update(t)
            \/ approve_transfer(t)
            \/ complete_transfer(t)
            \/ delete_account_delete(t)

DeleteSpec == TransferInit /\ [][DeleteNext]_vars

\* ------------------------------------------------------------ the disclosure filter alone

\* The raw records the filter is applied to: every subset of the hierarchy keys
\* (known and unknown), every form of named location, owner alice.
RawHierarchies ==
    {[k \in S |-> "v"] : S \in SUBSET (HierarchyKeys \cup UnknownKeys)}

RawNamedLocations ==
    {NoNamedLocation, LegacyNamedLocation("Legacy Place"),
     NamedLocation("Secret Place", "private", {}),
     NamedLocation("Soccer Field", "all", {})}
    \cup {NamedLocation("Doctor's Office", "selected", ids) :
            ids \in SUBSET {"bob", "carol"}}

RawRecords ==
    {LocationRecord(h, n, "t") : h \in RawHierarchies, n \in RawNamedLocations}

FilterOwner == "alice"

FilterInit ==
    /\ users = {[id |-> u, email |-> EmailOf(u), google_id |-> NULL,
                  public_key |-> NULL] : u \in UserIds}
    /\ user_seq = 0
    /\ contacts = {}
    /\ contact_seq = 0
    /\ permissions = {}
    /\ \E raw \in RawRecords :
          locations = [u \in UserIds |-> IF u = FilterOwner THEN raw ELSE NoRecord]
    /\ encrypted_locations = {}
    /\ devices = {}
    /\ device_seq = 0
    /\ transfers = {}
    /\ transfer_seq = 0
    /\ now = 0
    /\ threads = [t \in Threads |-> Idle]
    /\ resp = NoResponse

\* DisclosureFilter.apply(raw, level, viewer, owner) on the owner's stored record
apply_filter(viewer, owner, level) ==
    /\ locations[owner] # NoRecord
    /\ resp' = Response("filter_location", "", viewer, owner, 0, 200,
                        [kind |-> "view", level |-> level,
                         location |-> filter_location(locations[owner], level,
                                                      viewer, owner)])
    /\ UNCHANGED <<db, now, threads>>

FilterNext ==
    \E viewer \in UserIds, level \in Levels : apply_filter(viewer, FilterOwner, level)

FilterSpec == FilterInit /\ [][FilterNext]_vars

\* ------------------------------------------------------------ properties

\* The rows of contacts between two users, whichever of them sent the request.
Relationship(a, b) ==
    {c \in contacts : {c.requester_id, c.recipient_id} = {a, b}}

AcceptedContacts(a, b) ==
    \E c \in Relationship(a, b) : c.status = "accepted"

\* The rows of permissions keyed (granter, grantee).
Grant(granter, grantee) ==
    {p \in permissions : p.granter_id = granter /\ p.grantee_id = grantee}

C2_OneRelationshipPerPair ==
    \A a, b \in UserIds : Cardinality(Relationship(a, b)) <= 1

\* C3: every stored grant is between two users with an accepted edge (but for the
\* grants of a pair whose remove_contact is between its two commits).
C3_GrantsOnlyBetweenContacts ==
    \A p \in permissions :
        \/ AcceptedContacts(p.granter_id, p.grantee_id)
        \/ \E t \in Threads :
              /\ At(t, "remove_contact", "permissions")
              /\ {threads[t].user, threads[t].target} = {p.granter_id, p.grantee_id}

\* C4: when remove_contact(u, o) has answered success no grant is stored between u
\* and o in either direction, and a pair that becomes contacts (again) starts with
\* both levels at planet.
C4_RemoveClearsGrants ==
    /\ (resp.op = "remove_contact" /\ resp.status = 200)
          => /\ Grant(resp.user, resp.target) = {}
             /\ Grant(resp.target, resp.user) = {}
    /\ (resp.op = "accept_contact_request" /\ resp.status = 200)
          => /\ get_permission_level(resp.user, resp.target) = "planet"
             /\ get_permission_level(resp.target, resp.user) = "planet"

\* C4 witness: a removal that deleted the grants of both directions.
C4_RemovedBothGrants ==
    /\ resp.op = "remove_contact"
    /\ resp.status = 200
    /\ resp.body.rowcount = 2

\* Whether the view of a record filtered for a viewer at a level shows the label.
NamedLocationShown(raw, level, viewer, owner) ==
    filter_named_location(raw.namedLocation, level, viewer, owner) # ""

\* C5: for every stored record and viewer, the label is shown at one level iff it is
\* shown at every other level; a private label is hidden at address, a label for
\* all is shown at planet.
C5_Orthogonality ==
    \A o \in UserIds : locations[o] # NoRecord =>
        LET raw == locations[o] IN
        /\ \A v \in UserIds : \A L1, L2 \in Levels :
              NamedLocationShown(raw, L1, v, o) = NamedLocationShown(raw, L2, v, o)
        /\ \A v \in UserIds \ {o} :
              /\ (raw.namedLocation.form = "object" /\ raw.namedLocation.mode = "private")
                    => ~NamedLocationShown(raw, "address", v, o)
              /\ (raw.namedLocation.form = "object" /\ raw.namedLocation.mode = "all")
                    => NamedLocationShown(raw, "planet", v, o)
        /\ (resp.op = "filter_location" /\ resp.target = o)
              => \A L \in Levels :
                    (resp.body.location.namedLocation # "")
                        = NamedLocationShown(raw, L, resp.user, o)

\* C5 witness: a viewer at planet sees no hierarchy key of a record that has some,
\* and sees its label.
C5_LabelShownAtPlanet ==
    /\ resp.op = "filter_location"
    /\ resp.user # resp.target
    /\ resp.body.level = "planet"
    /\ resp.body.location.namedLocation = "Soccer Field"
    /\ DOMAIN resp.body.location.hierarchy = {}
    /\ "continent" \in DOMAIN locations[resp.target].hierarchy

\* f is g restricted to some of its keys
SubHierarchy(f, g) ==
    /\ DOMAIN f \subseteq DOMAIN g
    /\ \A k \in DOMAIN f : f[k] = g[k]

\* C6: for every stored hierarchy and levels L1 < L2, the hierarchy filtered at L1
\* is a subset of the hierarchy filtered at L2.
C6_Monotonicity ==
    \A o \in UserIds : locations[o] # NoRecord =>
        /\ \A L1, L2 \in Levels :
              LevelIndex(L1) < LevelIndex(L2) =>
                  SubHierarchy(filter_hierarchy(locations[o].hierarchy, L1),
                               filter_hierarchy(locations[o].hierarchy, L2))
        /\ (resp.op = "filter_location" /\ resp.target = o)
              => \A L \in Levels :
                    LevelIndex(resp.body.level) < LevelIndex(L) =>
                        SubHierarchy(resp.body.location.hierarchy,
                                     filter_hierarchy(locations[o].hierarchy, L))

\* C6 witness: a record with continent, state, city and street filtered at city
\* shows continent, state and city.
C6_FilteredAtCity ==
    /\ resp.op = "filter_location"
    /\ resp.body.level = "city"
    /\ DOMAIN locations[resp.target].hierarchy
          = {"continent", "state", "city", "street"}
    /\ DOMAIN resp.body.location.hierarchy = {"continent", "state", "city"}

\* C7: b is among a's contacts exactly when an accepted edge joins them, in either
\* direction; so the relation is symmetric, and the listing of get_contacts holds
\* exactly these users.
C7_ContactsAreAcceptedEdges ==
    /\ \A a, b \in UserIds :
          /\ (b \in get_user_contacts(a)) = AcceptedContacts(a, b)
          /\ (b \in get_user_contacts(a)) = (a \in get_user_contacts(b))
    /\ (resp.op = "get_contacts" /\ resp.status = 200)
          => {c.id : c \in resp.body.contacts}
                = {b \in UserIds : AcceptedContacts(resp.user, b)}

\* C7 witness: alice's listing holds bob, who accepted, and not carol, whose
\* request is pending.
C7_ListingShowsAcceptedOnly ==
    /\ resp.op = "get_contacts"
    /\ resp.status = 200
    /\ resp.user = "alice"
    /\ {c.id : c \in resp.body.contacts} = {"bob"}
    /\ \E c \in Relationship("alice", "carol") : c.status = "pending"

\* What a step that writes the grant of (A, B) may change.
C8_Step ==
    (resp'.op = "update_contact_permission" /\ resp'.pc = "upsert")
      => /\ contacts' = contacts
         /\ \A a, b \in UserIds :
               <<a, b>> # <<resp'.user, resp'.target>>
                  => /\ Grant(a, b)' = Grant(a, b)
                     /\ get_permission_level(a, b)' = get_permission_level(a, b)
         /\ {p \in permissions' :
                 p.granter_id = resp'.user /\ p.grantee_id = resp'.target}
               = {[granter_id |-> resp'.user, grantee_id |-> resp'.target,
                   permission_level |-> resp'.body.permissionGranted]}

\* C8: the step of update_contact_permission that writes the grant of (A, B)
\* leaves the grant of every other ordered pair, (B, A) among them, and the
\* contacts as they were.
C8_AsymmetricPermissions == [][C8_Step]_vars

\* C8 witness: alice has just granted bob city while bob's grant to alice is street.
C8_CityOneWayStreetTheOther ==
    /\ resp.op = "update_contact_permission"
    /\ resp.status = 200
    /\ resp.user = "alice"
    /\ resp.target = "bob"
    /\ get_permission_level("alice", "bob") = "city"
    /\ get_permission_level("bob", "alice") = "street"

\* C9: a request whose INSERT runs when the other user's request for the same
\* pair is already stored answers Conflict and stores no second row.
C9_RaceLoserGetsConflict ==
    (/\ resp.op = "send_contact_request"
     /\ resp.pc = "insert"
     /\ \E c \in contacts :
           c.requester_id = resp.target /\ c.recipient_id = resp.user)
       => /\ resp.status = 409
          /\ Cardinality(Relationship(resp.user, resp.target)) = 1

\* What the two steps of send_contact_request answer and change.
C10_Step ==
    resp'.op = "send_contact_request" =>
        LET u == resp'.user
            target == resp'.target
        IN  /\ (resp'.pc = "check" /\ target # "" /\ target # u)
                  => /\ (resp'.status = 409) = (Relationship(u, target) # {})
                     /\ resp'.status \in {0, 409}
                     /\ contacts' = contacts
            /\ resp'.pc = "insert"
                  => /\ resp'.status = 201
                     /\ Relationship(u, target) = {}
                     /\ \E id \in RequestIds :
                           /\ \A c \in contacts : c.id # id
                           /\ contacts' = contacts \cup
                                 {[id |-> id, requester_id |-> u,
                                   recipient_id |-> target, status |-> "pending"]}

\* C10: send_contact_request for a known other user answers Conflict, leaving
\* contacts as it was, exactly when a row joins the pair in either direction;
\* otherwise it answers 201 and adds one pending row requester -> recipient.
C10_ConflictOrPending == [][C10_Step]_vars

\* C10 witness: bob's request to alice answers Conflict while alice's request to
\* bob is pending.
C10_ConflictOnReverseRequest ==
    /\ resp.op = "send_contact_request"
    /\ resp.status = 409
    /\ resp.user = "bob"
    /\ resp.target = "alice"
    /\ \E c \in contacts :
          /\ c.requester_id = "alice" /\ c.recipient_id = "bob"
          /\ c.status = "pending"

\* What may turn a row accepted, and what the check of accept_contact_request
\* answers.
C11_Step ==
    /\ \A d \in contacts' :
          d.status = "accepted" =>
              \E c \in contacts :
                  /\ c.id = d.id
                  /\ c.requester_id = d.requester_id
                  /\ c.recipient_id = d.recipient_id
                  /\ \/ c.status = "accepted"
                     \/ /\ c.status = "pending"
                        /\ resp'.op = "accept_contact_request"
                        /\ resp'.pc = "update"
                        /\ resp'.status = 200
                        /\ resp'.user = c.recipient_id
                        /\ resp'.id = c.id
    /\ (resp'.op = "accept_contact_request" /\ resp'.pc = "check")
          => /\ resp'.status \in {0, 404}
             /\ (resp'.status = 404)
                   = ~\E c \in contacts :
                         /\ c.id = resp'.id
                         /\ c.recipient_id = resp'.user
                         /\ c.status = "pending"
             /\ contacts' = contacts
             /\ permissions' = permissions

\* C11: a row of contacts turns from pending to accepted only in the UPDATE of an
\* accept_contact_request called by the row's recipient; accept_contact_request by
\* anyone else, or for an id that is no pending row, answers 404 and changes
\* neither contacts nor permissions.
C11_OnlyRecipientAccepts == [][C11_Step]_vars

\* C11 witness: the requester of a pending request tries to accept it: 404, the
\* row still pending.
C11_RequesterCannotAccept ==
    /\ resp.op = "accept_contact_request"
    /\ resp.status = 404
    /\ \E c \in contacts :
          /\ c.id = resp.id
          /\ c.requester_id = resp.user
          /\ c.status = "pending"

\* The pending row with an id in which a user has a role
PendingFor(id, role, user) ==
    {c \in contacts :
        /\ c.id = id
        /\ c.status = "pending"
        /\ \/ (role = "recipient" /\ c.recipient_id = user)
           \/ (role = "requester" /\ c.requester_id = user)}

\* The role decline_contact_request and cancel_contact_request ask of the caller
RoleOf(op) ==
    IF op = "decline_contact_request" THEN "recipient" ELSE "requester"

\* What the checks of decline and cancel answer, and what their DELETE changes.
C12_Step ==
    resp'.op \in {"decline_contact_request", "cancel_contact_request"} =>
        LET rows == PendingFor(resp'.id, RoleOf(resp'.op), resp'.user)
        IN  /\ resp'.pc = "check"
                  => /\ resp'.status \in {0, 404}
                     /\ (resp'.status = 404) = (rows = {})
                     /\ contacts' = contacts
                     /\ permissions' = permissions
            /\ resp'.pc = "delete"
                  => /\ resp'.status = 200
                     /\ permissions' = permissions
                     /\ contacts' = {d \in contacts : d.id # resp'.id}
                     /\ \A d \in contacts' :
                           {d.requester_id, d.recipient_id}
                              # {resp'.user, resp'.target}

\* C12: decline_contact_request answers 404 unless the caller is the recipient of
\* the pending row with that id, cancel_contact_request unless the caller is its
\* requester, and then nothing changes; on success the row is deleted, not kept
\* under another status, and no row is left between the pair.
C12_DeclineCancelDelete ==
    [][C12_Step /\ \A d \in contacts' : d.status \in {"pending", "accepted"}]_vars

\* What remove_contact answers and changes.
C13_Step ==
    resp'.op = "remove_contact" =>
        /\ resp'.pc = "delete"
              => /\ resp'.status \in {0, 404}
                 /\ (resp'.status = 404)
                       = ~AcceptedContacts(resp'.user, resp'.target)
                 /\ resp'.status = 404
                       => (contacts' = contacts /\ permissions' = permissions)
                 /\ ~\E c \in contacts' :
                        /\ {c.requester_id, c.recipient_id}
                              = {resp'.user, resp'.target}
                        /\ c.status = "accepted"
        /\ resp'.pc = "permissions"
              => /\ resp'.status = 200
                 /\ contacts' = contacts
                 /\ permissions' \subseteq permissions

\* C13: remove_contact(u, o) answers 404 exactly when no accepted row joins u and
\* o, and then changes neither contacts nor permissions; after its DELETE no
\* accepted row joins the pair, so a second call answers 404, and no step of
\* remove_contact adds a grant.
C13_RemoveNotFound == [][C13_Step]_vars

\* C13 witness: remove_contact answers 404 for a pair joined only by a pending
\* request.
C13_NotFoundWhilePending ==
    /\ resp.op = "remove_contact"
    /\ resp.status = 404
    /\ \E c \in Relationship(resp.user, resp.target) : c.status = "pending"

\* C14: get_permission_level(x, y) always returns one of the nine levels, for
\* unknown ids too: planet when no grant is stored for (x, y), the stored level
\* otherwise; the levels get_contacts lists are read the same way.
C14_DefaultLevel ==
    /\ \A x, y \in ContactIdInputs :
          /\ get_permission_level(x, y) \in Levels
          /\ Grant(x, y) = {} => get_permission_level(x, y) = "planet"
          /\ \A p \in Grant(x, y) : get_permission_level(x, y) = p.permission_level
    /\ (resp.op = "get_contacts" /\ resp.status = 200)
          => \A c \in resp.body.contacts :
                /\ Grant(resp.user, c.id) = {} => c.permissionGranted = "planet"
                /\ Grant(c.id, resp.user) = {} => c.permissionReceived = "planet"

\* C14 witness: alice's listing shows bob with the level he granted her, city, and
\* planet as the level she never set for him.
C14_PlanetWhereNeverSet ==
    /\ resp.op = "get_contacts"
    /\ resp.status = 200
    /\ resp.user = "alice"
    /\ Grant("alice", "bob") = {}
    /\ \E c \in resp.body.contacts :
          /\ c.id = "bob"
          /\ c.permissionGranted = "planet"
          /\ c.permissionReceived = "city"

\* Which steps change the grant of a key, and what the committed upsert leaves.
C15_Step ==
    /\ \A a, b \in UserIds :
          /\ Cardinality(Grant(a, b)') <= 1
          /\ Grant(a, b)' # Grant(a, b)
                => \/ /\ resp'.op = "update_contact_permission"
                      /\ resp'.pc = "upsert"
                      /\ resp'.user = a
                      /\ resp'.target = b
                   \/ /\ resp'.op = "remove_contact"
                      /\ resp'.pc = "permissions"
                      /\ {resp'.user, resp'.target} = {a, b}
                      /\ Grant(a, b)' = {}
    /\ (resp'.op = "update_contact_permission" /\ resp'.pc = "upsert")
          => /\ resp'.status = 200
             /\ \A p \in permissions' :
                   (p.granter_id = resp'.user /\ p.grantee_id = resp'.target)
                      => p.permission_level = resp'.body.permissionGranted
             /\ \E p \in permissions' :
                   p.granter_id = resp'.user /\ p.grantee_id = resp'.target

\* C15: with update_contact_permission calls overlapping, a key (granter, grantee)
\* never has more than one row; the row holds the level of the upsert that
\* committed last, and it changes only by another upsert on the key or by
\* remove_contact deleting it.
C15_LastWriteWins == [][C15_Step]_vars

\* C15 witness: alice's grant to bob of street has committed while her overlapping
\* call granting him city has yet to write.
C15_OverlappingWritesSameKey ==
    /\ resp.op = "update_contact_permission"
    /\ resp.pc = "upsert"
    /\ resp.user = "alice"
    /\ resp.target = "bob"
    /\ Grant("alice", "bob")
          = {[granter_id |-> "alice", grantee_id |-> "bob",
              permission_level |-> "street"]}
    /\ \E t \in Threads :
          /\ At(t, "update_contact_permission", "upsert")
          /\ threads[t].user = "alice"
          /\ threads[t].target = "bob"
          /\ threads[t].level = "city"

\* What the contact check of update_contact_permission answers.
C16_Step ==
    resp'.op = "update_contact_permission" =>
        /\ resp'.pc = "check"
              => /\ (resp'.status = 403)
                       = ~AcceptedContacts(resp'.user, resp'.target)
                 /\ resp'.status = 403 => threads' = threads
                 /\ permissions' = permissions
                 /\ contacts' = contacts

\* C16: update_contact_permission for a user who is not an accepted contact of
\* the caller answers 403, writes no grant and ends there (no write is left to
\* run).
C16_ForbiddenForNonContact == [][C16_Step]_vars

\* C16 witness: 403 for a user whose request to the caller is still pending, no
\* grant stored for the pair.
C16_ForbiddenWhilePending ==
    /\ resp.op = "update_contact_permission"
    /\ resp.status = 403
    /\ \E c \in Relationship(resp.user, resp.target) : c.status = "pending"
    /\ Grant(resp.user, resp.target) = {}

\* What update_contact_permission answers to a level, and what it stores.
C17_Step ==
    resp'.op = "update_contact_permission" =>
        /\ (resp'.pc = "check" /\ AcceptedContacts(resp'.user, resp'.target))
              => /\ resp'.status \in {0, 400}
                 /\ (resp'.status = 400) = (resp'.body.level \notin Levels)
        /\ (resp'.pc = "check" /\ resp'.status = 400)
              => permissions' = permissions
        /\ resp'.pc = "upsert"
              => /\ resp'.body.permissionGranted \in Levels
                 /\ {p \in permissions' :
                        p.granter_id = resp'.user /\ p.grantee_id = resp'.target}
                      = {[granter_id |-> resp'.user, grantee_id |-> resp'.target,
                          permission_level |-> resp'.body.permissionGranted]}

\* C17: update_contact_permission with a level outside the nine answers 400 and
\* leaves permissions as it was; with one of the nine it leaves exactly one row
\* for the pair, holding the new level.
C17_InvalidLevelRejected == [][C17_Step]_vars

\* C17 witness: alice's invalid level for bob is answered 400 and her earlier
\* grant of city is still stored.
C17_InvalidLevelKeepsCity ==
    /\ resp.op = "update_contact_permission"
    /\ resp.status = 400
    /\ resp.user = "alice"
    /\ resp.target = "bob"
    /\ resp.body.level = "invalid_level"
    /\ Grant("alice", "bob")
          = {[granter_id |-> "alice", grantee_id |-> "bob",
              permission_level |-> "city"]}

\* C18: for every stored hierarchy and every level, the filtered hierarchy holds
\* a key, with its stored value, exactly when the key is one of the stored
\* hierarchy whose level index is at most the granted level's; at planet it is
\* empty, whatever is stored.
C18_FilterExactness ==
    \A o \in UserIds : locations[o] # NoRecord =>
        LET h == locations[o].hierarchy IN
        /\ \A L \in Levels :
              LET view == filter_hierarchy(h, L) IN
              /\ DOMAIN view
                    = {k \in DOMAIN h \cap HierarchyKeys :
                          LevelIndex(k) <= LevelIndex(L)}
              /\ \A k \in DOMAIN view : view[k] = h[k]
        /\ DOMAIN filter_hierarchy(h, "planet") = {}
        /\ (resp.op = "filter_location" /\ resp.target = o)
              => DOMAIN resp.body.location.hierarchy
                    = {k \in DOMAIN h \cap HierarchyKeys :
                          LevelIndex(k) <= LevelIndex(resp.body.level)}

\* C18 witness: a record with every key, and no label, filtered at planet: the
\* view holds no key.
C18_PlanetShowsNothing ==
    /\ resp.op = "filter_location"
    /\ resp.body.level = "planet"
    /\ HierarchyKeys \subseteq DOMAIN locations[resp.target].hierarchy
    /\ locations[resp.target].namedLocation = NoNamedLocation
    /\ DOMAIN resp.body.location.hierarchy = {}

\* Whether a label is one a contact may see: for all, or selected for the viewer.
VisibleToContact(namedLocation, viewer) ==
    /\ namedLocation.form = "object"
    /\ \/ namedLocation.mode = "all"
       \/ (namedLocation.mode = "selected" /\ viewer \in namedLocation.ids)

\* C19: in the view filtered for a viewer other than the owner, at any level, the
\* label is present exactly when it is visible to all or selected for a set
\* holding the viewer; a private label and a bare-string label are never shown.
C19_NamedLocationVisibility ==
    \A o \in UserIds : locations[o] # NoRecord =>
        LET n == locations[o].namedLocation IN
        /\ \A v \in UserIds \ {o} : \A L \in Levels :
              LET shown == filter_named_location(n, L, v, o) IN
              /\ (shown # "") = VisibleToContact(n, v)
              /\ shown # "" => shown = n.label
        /\ (resp.op = "filter_location" /\ resp.target = o /\ resp.user # o)
              => (resp.body.location.namedLocation # "")
                    = VisibleToContact(n, resp.user)

\* C19 witness: a label selected for carol alone is absent from bob's view.
C19_SelectedForCarolHiddenFromBob ==
    /\ resp.op = "filter_location"
    /\ resp.user = "bob"
    /\ locations[resp.target].namedLocation
          = NamedLocation("Doctor's Office", "selected", {"carol"})
    /\ resp.body.location.namedLocation = ""

\* The accepted contacts of a user.
AcceptedContactsOf(u) == {c \in UserIds : AcceptedContacts(u, c)}

\* C20: the bulk encrypted listing of a viewer holds exactly the viewer's accepted
\* contacts, each once: the contact ids it reads are the accepted contacts, none
\* twice, and the list it returns has no two entries for one contact; an entry
\* carries the blob the contact stored for the viewer, and null when the contact
\* stored none.
C20_BulkListingEachContactOnce ==
    /\ (resp.op = "get_contacts_encrypted" /\ resp.pc = "contacts" /\ resp.status = 0)
          => /\ {r.contact_id : r \in resp.body.rows} = AcceptedContactsOf(resp.user)
             /\ \A r1, r2 \in resp.body.rows :
                    r1.contact_id = r2.contact_id => r1 = r2
    /\ (resp.op = "get_contacts_encrypted" /\ resp.pc = "contacts"
          /\ resp.status = 200)
          => /\ AcceptedContactsOf(resp.user) = {}
             /\ resp.body.contacts = {}
    /\ (resp.op = "get_contacts_encrypted" /\ resp.pc = "rows" /\ resp.status = 200)
          => /\ resp.body.contacts # {}
             /\ \A e1, e2 \in resp.body.contacts : e1.id = e2.id => e1 = e2
             /\ \A e \in resp.body.contacts :
                    e.encryptedLocation
                        = encrypted_location(e.id, resp.user,
                                             now - LOCATION_EXPIRY_MINUTES)

\* The level stored for (granter, grantee), planet when no row is stored.
GrantedLevel(granter, grantee) ==
    IF Grant(granter, grantee) = {} THEN "planet"
    ELSE (CHOOSE p \in Grant(granter, grantee) : TRUE).permission_level

\* Whether the last response is a contact listing (plain or encrypted).
IsListing ==
    /\ resp.status = 200
    /\ \/ resp.op = "get_contacts" /\ resp.pc = "permissions"
       \/ resp.op = "get_contacts_encrypted" /\ resp.pc = "rows"

\* C21: in a contact listing returned to a caller, the entry of contact c has
\* permissionGranted the level stored for (caller, c) and permissionReceived the
\* level stored for (c, caller), planet where none is stored; so what the caller's
\* listing gives as granted to c is what c's listing would give as received from
\* the caller.
C21_ListingLevels ==
    /\ IsListing =>
          \A e \in resp.body.contacts :
              /\ e.permissionGranted = GrantedLevel(resp.user, e.id)
              /\ e.permissionReceived = GrantedLevel(e.id, resp.user)
    /\ \A a, b \in UserIds :
          /\ get_permission_level(a, b) = GrantedLevel(a, b)
          /\ Cardinality(Grant(a, b)) <= 1

\* C21 witness: alice's listing shows city granted to bob and planet received.
C21_CityGrantedPlanetReceived ==
    /\ IsListing
    /\ resp.user = "alice"
    /\ \E e \in resp.body.contacts :
          e.id = "bob" /\ e.permissionGranted = "city" /\ e.permissionReceived = "planet"

\* The rows of encrypted_locations from one user to another.
Stored(from_user_id, to_user_id) ==
    {r \in encrypted_locations :
        r.from_user_id = from_user_id /\ r.to_user_id = to_user_id}

\* The write step of publish_encrypted_locations by thread t: the entry whose
\* contact check led to the step, and every later valid entry naming a contact,
\* leaves the pair's only row holding the blob of the last such
\* entry, and the rows of other pairs are as they were.
C22_Step ==
    \A t \in Threads :
        (At(t, "publish_encrypted_locations", "write") /\ threads'[t] = Idle) =>
            LET u == threads[t].user
                locs == threads[t].locs
                Written(i) == \/ i = 1
                              \/ /\ valid_entry(locs[i])
                                 /\ locs[i].contactId \in get_user_contacts(u)
                named == {locs[i].contactId : i \in {j \in DOMAIN locs : Written(j)}}
            IN  /\ named # {}
                /\ \A c \in named :
                      LET last == CHOOSE i \in DOMAIN locs :
                                     /\ Written(i) /\ locs[i].contactId = c
                                     /\ \A j \in DOMAIN locs :
                                           (Written(j) /\ locs[j].contactId = c)
                                              => j <= i
                      IN  {r \in encrypted_locations' :
                              r.from_user_id = u /\ r.to_user_id = c}
                            = {[from_user_id |-> u, to_user_id |-> c,
                                encrypted_blob |-> locs[last].blob,
                                updated_at |-> now]}
                /\ {r \in encrypted_locations' :
                        ~(r.from_user_id = u /\ r.to_user_id \in named)}
                     = {r \in encrypted_locations :
                        ~(r.from_user_id = u /\ r.to_user_id \in named)}

\* C22: a publish overwrites: the encrypted store never holds two rows for one
\* publisher and recipient, and after a publish the pair's row is the one just
\* published, whatever was stored before.
C22_PublishOverwrites ==
    [][/\ C22_Step
       /\ \A a, b \in UserIds :
             Cardinality({r \in encrypted_locations' :
                             r.from_user_id = a /\ r.to_user_id = b}) <= 1]_vars

\* C22 witness: alice's publish replaced the blob1 she had stored for bob by blob2.
C22_SecondPublishReplacedFirst ==
    /\ resp.op = "publish_encrypted_locations" /\ resp.pc = "write"
    /\ resp.user = "alice"
    /\ \E r \in resp.body.replaced :
          r.to_user_id = "bob" /\ r.encrypted_blob = "blob1"
    /\ \A r \in Stored("alice", "bob") : r.encrypted_blob = "blob2"
    /\ Stored("alice", "bob") # {}

\* C23: an entry of the encrypted listing is stale exactly when the stored update
\* time, set by the server at the publish, is more than LOCATION_EXPIRY_MINUTES
\* before the time of the read (not at exactly that many minutes), and stale or
\* not it carries the stored blob and update time.
C23_StaleAfterExpiry ==
    (resp.op = "get_contacts_encrypted" /\ resp.pc = "rows" /\ resp.status = 200) =>
        LET read_time == resp.body.expiry_time + LOCATION_EXPIRY_MINUTES IN
        \A e \in resp.body.contacts :
            IF Stored(e.id, resp.user) = {}
            THEN e.encryptedLocation = NoEncryptedLocation
            ELSE \E r \in Stored(e.id, resp.user) :
                    /\ e.encryptedLocation.blob = r.encrypted_blob
                    /\ e.encryptedLocation.updated_at = r.updated_at
                    /\ e.encryptedLocation.stale
                          = (read_time - r.updated_at > LOCATION_EXPIRY_MINUTES)

\* C23 witness: a location read exactly LOCATION_EXPIRY_MINUTES after its publish
\* is returned not stale.
C23_NotStaleAtExactlyExpiry ==
    /\ resp.op = "get_contacts_encrypted" /\ resp.pc = "rows" /\ resp.status = 200
    /\ \E e \in resp.body.contacts :
          /\ e.encryptedLocation # NoEncryptedLocation
          /\ resp.body.expiry_time = e.encryptedLocation.updated_at
          /\ ~e.encryptedLocation.stale
          /\ e.encryptedLocation.blob = "blob2"

\* C24: no two rows of users have the same email up to case, whatever the order
\* and overlap of the register and auth_google calls.
C24_EmailUniqueUpToCase ==
    \A u1, u2 \in users :
        (lower(u1.email) = lower(u2.email) \/ u1.id = u2.id) => u1 = u2

\* C24 witness: a sign-up with an email already stored in another case was
\* answered without a new row, dave being registered once.
C24_SecondCaseRejected ==
    /\ resp.op = "register" /\ resp.status \in {409, 500}
    /\ resp.target = "dave@test.com"
    /\ Cardinality({u \in users : lower(u.email) = "dave@test.com"}) = 1

\* The active devices of a user.
ActiveDevices(user_id) == {d \in devices : d.user_id = user_id /\ d.is_active}

\* C25: every user has at most one device with is_active true, whatever the order
\* and overlap of device registrations, activations and deletions.
C25_OneActiveDevice ==
    \A u \in {d.user_id : d \in devices} : Cardinality(ActiveDevices(u)) <= 1

\* C26: get_contact_permission and get_contact_public_key answer Forbidden, with no
\* level and no key in the response, exactly when the user asked about is not an
\* accepted contact of the caller at the contact check (no relationship, a pending
\* request, a removed contact); only a request that passed the check goes on to
\* read the levels or the key.
C26_DetailsOnlyForContacts ==
    /\ (resp.op \in {"get_contact_permission", "get_contact_public_key"}
          /\ resp.pc = "check")
          => /\ resp.status = (IF AcceptedContacts(resp.user, resp.target)
                               THEN 0 ELSE 403)
             /\ resp.body = NoBody
    /\ \A t \in Threads :
          (threads[t].op \in {"get_contact_permission", "get_contact_public_key"}
             /\ resp.op = threads[t].op /\ resp.pc = "check" /\ resp.status = 0
             /\ resp.user = threads[t].user /\ resp.target = threads[t].target)
             => AcceptedContacts(threads[t].user, threads[t].target)

\* C26 witness: bob has registered a key and alice's request to him is pending; her
\* read of his key is answered Forbidden.
C26_ForbiddenKeyWhilePending ==
    /\ resp.op = "get_contact_public_key" /\ resp.status = 403
    /\ resp.user = "alice" /\ resp.target = "bob"
    /\ get_user_by_id("bob").public_key = "key44"
    /\ \E c \in Relationship("alice", "bob") : c.status = "pending"

\* The step of activate_device that checks the device and the step of
\* remove_device: NotFound exactly when no device has the id sent and the caller
\* as its user, and then no row of devices changes.
C27_Step ==
    LET belongs == \E d \in devices : d.id = resp'.id /\ d.user_id = resp'.user IN
    /\ (resp'.op = "activate_device" /\ resp'.pc = "check")
          => /\ resp'.status = (IF belongs THEN 0 ELSE 404)
             /\ devices' = devices
    /\ resp'.op = "remove_device"
          => /\ resp'.status = (IF belongs THEN 200 ELSE 404)
             /\ ~belongs => devices' = devices
             /\ belongs => devices' = {d \in devices : d.id # resp'.id}

\* C27: activating or deleting a device that is not the caller's, or that does not
\* exist, answers NotFound and leaves every device, with its active flag, as it
\* was.
C27_ForeignDeviceNotFound == [][C27_Step]_vars

\* C27 witness: bob, who has an active device, tried to activate or delete the
\* active device of alice and was answered NotFound.
C27_NotFoundOnAliceDevice ==
    /\ resp.op \in {"activate_device", "remove_device"}
    /\ resp.status = 404
    /\ resp.user = "bob"
    /\ \E d \in devices : d.id = resp.id /\ d.user_id = "alice" /\ d.is_active
    /\ ActiveDevices("bob") # {}

\* The INSERT of register_device: one new row, for the user of the request, active
\* exactly when the user had no device; the rows that were there are unchanged.
C28_Step ==
    (resp'.pc = "device_insert" /\ devices' # devices) =>
        /\ devices \subseteq devices'
        /\ \E d \in devices' \ devices :
              /\ devices' \ devices = {d}
              /\ d.id = resp'.id /\ d.user_id = resp'.user
              /\ d.is_active = (~\E e \in devices : e.user_id = resp'.user)
              /\ resp'.body.isActive = d.is_active

\* C28: a device registered while its user has no device becomes active; one
\* registered while the user has a device is inactive, and the active flags of the
\* devices already there stay as they were.
C28_FirstDeviceActive == [][C28_Step]_vars

\* C28 witness: alice's second device was registered inactive, her first still
\* active.
C28_SecondDeviceInactive ==
    /\ resp.op = "add_device" /\ resp.status = 201 /\ resp.user = "alice"
    /\ ~resp.body.isActive
    /\ \E d \in devices : d.id = resp.id /\ d.user_id = "alice" /\ ~d.is_active
    /\ \E d \in devices : d.id # resp.id /\ d.user_id = "alice" /\ d.is_active

\* The UPDATE of accept_contact_request: the row with the id of the request, if
\* it is still there, becomes accepted; every other row of contacts, every grant
\* and every location record is as it was.
C29_Step ==
    (resp'.op = "accept_contact_request" /\ resp'.pc = "update") =>
        /\ \A c \in contacts : c.id # resp'.id => c \in contacts'
        /\ \A c \in contacts' :
              \/ c \in contacts
              \/ /\ c.id = resp'.id /\ c.status = "accepted"
                 /\ \E b \in contacts : b.id = c.id /\ c = [b EXCEPT !.status = "accepted"]
        /\ Cardinality(contacts') = Cardinality(contacts)
        /\ permissions' = permissions
        /\ locations' = locations
        /\ encrypted_locations' = encrypted_locations

\* C29: accepting a request changes the status of the addressed edge and nothing
\* else: no other edge, no permission grant, no stored location record.
C29_AcceptFrame == [][C29_Step]_vars

\* C29 witness: a request was accepted while a grant and a published blob were
\* stored; both are still there.
C29_AcceptedWithGrantAndBlobStored ==
    /\ resp.op = "accept_contact_request" /\ resp.pc = "update" /\ resp.status = 200
    /\ \E c \in contacts : c.id = resp.id /\ c.status = "accepted"
    /\ permissions # {}
    /\ encrypted_locations # {}

\* The steps of publish_encrypted_locations.  A contact check writes nothing, and
\* sends the request on to its INSERT exactly when the recipient of the entry is
\* an accepted contact of the publisher; otherwise the entry is skipped, without
\* an error.  The write adds or changes rows from the publisher only, to the
\* recipient whose check led to it or to a recipient of a later entry who is an
\* accepted contact.
C30_Step ==
    /\ (resp'.op = "publish_encrypted_locations" /\ resp'.pc = "check")
          => /\ encrypted_locations' = encrypted_locations
             /\ resp'.status \in {0, 200}
             /\ IF resp'.target # "" /\ AcceptedContacts(resp'.user, resp'.target)
                THEN \E t \in Threads :
                        /\ threads'[t] # threads[t]
                        /\ threads'[t].pc = "write"
                        /\ threads'[t].user = resp'.user
                        /\ Head(threads'[t].locs).contactId = resp'.target
                ELSE \A t \in Threads :
                        threads'[t].pc = "write" => threads'[t] = threads[t]
    /\ \A t \in Threads :
          (At(t, "publish_encrypted_locations", "write") /\ threads'[t] = Idle) =>
              /\ resp'.status = 200
              /\ \A r \in encrypted_locations' \ encrypted_locations :
                    /\ r.from_user_id = threads[t].user
                    /\ \/ r.to_user_id = Head(threads[t].locs).contactId
                       \/ /\ AcceptedContacts(threads[t].user, r.to_user_id)
                          /\ \E i \in DOMAIN threads[t].locs :
                                threads[t].locs[i].contactId = r.to_user_id

\* C30: publish_encrypted_locations stores a blob only for a recipient found to be
\* an accepted contact of the publisher when the entry is processed; an entry
\* naming anyone else is skipped without an error and no row is created or
\* changed for it.
C30_PublishOnlyToContacts == [][C30_Step]_vars

\* C30 witness: alice published for bob while her request to him was pending; the
\* call succeeded and nothing is stored from alice for bob.
C30_SkippedWhilePending ==
    /\ resp.op = "publish_encrypted_locations" /\ resp.pc = "check"
    /\ resp.status = 200 /\ resp.user = "alice" /\ resp.target = "bob"
    /\ \E c \in Relationship("alice", "bob") : c.status = "pending"
    /\ ~AcceptedContacts("alice", "bob")
    /\ Stored("alice", "bob") = {}

\* C37: an accept that reports success leaves the edge accepted: right after the
\* success response of accept_contact_request a contact relationship between the
\* recipient and the requester exists, also when the requester's cancel of the
\* same request overlaps the accept.
C37_AcceptSuccessMeansAccepted ==
    (resp.op = "accept_contact_request" /\ resp.pc = "update" /\ resp.status = 200)
        => AcceptedContacts(resp.user, resp.target)

\* C40: whenever a user has at least one device, exactly one of the user's devices
\* is active, after any sequence of device registrations, activations and
\* deletions that do not overlap, a deletion of the active device included.
C40_ExactlyOneActiveDevice ==
    (\A t \in Threads : Free(t)) =>
        \A u \in {d.user_id : d \in devices} : Cardinality(ActiveDevices(u)) = 1

\* C38: removing a contact removes the encrypted location records the two users
\* published for each other: between requests, a stored record from one user to
\* another exists only while the two are accepted contacts, so that contacts who
\* were removed and accepted again list null for each other until a new publish.
C38_RemoveContactRemovesLocations ==
    (\A t \in Threads : Free(t)) =>
        \A r \in encrypted_locations : AcceptedContacts(r.from_user_id, r.to_user_id)

\* C39: a blob published by A for B is returned only to B and only while A is
\* an accepted contact of B: every blob in a listing returned to a viewer is the
\* one the entry's contact published for that viewer, and that contact is an
\* accepted contact of the viewer; no listing of a third user holds it.
C39_BlobOnlyToItsRecipient ==
    (resp.op = "get_contacts_encrypted" /\ resp.pc = "rows" /\ resp.status = 200) =>
        \A e \in resp.body.contacts :
            e.encryptedLocation # NoEncryptedLocation =>
                /\ e.encryptedLocation.blob = ShareBlob(e.id, resp.user)
                /\ AcceptedContacts(resp.user, e.id)

\* alice, a contact of bob and of carol, has published for both, and bob has
\* listed: his listing holds alice's blob for bob and not the stored one for carol.
C39_BobListsOnlyHisBlob ==
    /\ resp.op = "get_contacts_encrypted" /\ resp.pc = "rows" /\ resp.status = 200
    /\ resp.user = "bob"
    /\ \E e \in resp.body.contacts :
          e.id = "alice" /\ e.encryptedLocation.blob = "alice-for-bob"
    /\ Stored("alice", "carol") # {}

\* C32: a transfer is claimed by at most one target device: a claim that is
\* answered with success, whether or not another claim overlaps it, is the one
\* whose temporary device id the transfer stores as its target device, so that
\* no two claims of one transfer both succeed.
C32_ClaimedByOneDevice ==
    (/\ resp.op = "claim_transfer_request"
     /\ resp.pc = "update"
     /\ resp.status = 200)
        => get_transfer_by_id(resp.id).target_device_id = resp.body.tempDeviceId

\* The step of receive_transfer_identity that answers with the identity: the
\* transfer it answers for has not been completed by another receive.
C33_Step ==
    \A t \in Threads :
        (At(t, "receive_transfer_identity", "complete") /\ threads'[t] = Idle) =>
            get_transfer_by_id(threads[t].id).status # "completed"

\* C33: the encrypted identity of a transfer is handed out at most once: the
\* receive that returns it completes the transfer, and no other receive,
\* sequential or overlapping, returns the identity of a completed transfer.
C33_IdentityHandedOutOnce == [][C33_Step]_vars

\* What the stored transfers carry: no identity while pending or claimed; once
\* approved, a target device from the claim and the identity its own source user
\* sent.
C34_Carried ==
    \A r \in transfers :
        /\ r.status \in {"pending", "claimed"} => r.encrypted_identity = NULL
        /\ r.status \in {"approved", "completed"} =>
              /\ r.target_device_id # 0
              /\ r.encrypted_identity = IdentityOf(r.source_user_id)

\* What the handlers answer: a receive goes on to return the identity only for a
\* row that is approved, and returns the one its source user sent; an approve
\* passes its check exactly when the row is the caller's and claimed, and is
\* answered Not Found otherwise.
C34_Answered ==
    /\ (resp.op = "receive_transfer_identity" /\ resp.pc = "read") =>
          LET transfer == get_transfer_by_id(resp.id)
          IN  (resp.status = 0) <=>
                  (/\ transfer.status = "approved"
                   /\ ~(transfer.expires_at < now))
    /\ (resp.op = "receive_transfer_identity" /\ resp.pc = "complete") =>
          \E u \in UserIds :
              /\ resp.body.encryptedIdentity = IdentityOf(u)
              /\ \A r \in transfers : r.id = resp.id => r.source_user_id = u
    /\ (resp.op = "approve_transfer_request" /\ resp.pc = "check"
            /\ resp.status \in {0, 404}) =>
          LET transfer == get_transfer_by_id(resp.id)
          IN  (resp.status = 0) <=>
                  (/\ transfer.source_user_id = resp.user
                   /\ transfer.status = "claimed")

\* The steps of approve: the check changes nothing, the update changes at most
\* the row it checked, the caller's, from claimed to approved.
C34_Step ==
    \A t \in Threads :
        /\ (Free(t) /\ threads'[t].op = "approve_transfer_request")
              => transfers' = transfers
        /\ (resp'.op = "approve_transfer_request" /\ resp'.pc = "check")
              => transfers' = transfers
        /\ (At(t, "approve_transfer_request", "update") /\ threads'[t] = Idle) =>
              \A r \in transfers :
                  \/ r \in transfers'
                  \/ /\ r.id = threads[t].id
                     /\ r.source_user_id = threads[t].user
                     /\ r.status = "claimed"
                     /\ [r EXCEPT !.status = "approved",
                                  !.encrypted_identity =
                                      threads[t].encrypted_identity] \in transfers'

\* C34: receive returns an identity only for a transfer that was claimed and then
\* approved by its own source user; approve succeeds only for the source user on
\* a claimed transfer and otherwise answers Not Found and changes nothing; a
\* pending or claimed transfer never carries or yields an identity.
C34_IdentityOnlyAfterOwnApproval ==
    /\ [](C34_Carried /\ C34_Answered)
    /\ [][C34_Step]_vars

\* A target device has received alice's identity from her transfer.
C34_AliceIdentityReceived ==
    /\ resp.op = "receive_transfer_identity" /\ resp.pc = "complete"
    /\ resp.status = 200
    /\ resp.body.encryptedIdentity = "identity-of-alice"
    /\ \E r \in transfers :
          r.id = resp.id /\ r.source_user_id = "alice" /\ r.status = "completed"

\* The status that follows a status.
C35_Successor(status) ==
    CASE status = "pending"  -> "claimed"
      [] status = "claimed"  -> "approved"
      [] status = "approved" -> "completed"
      [] OTHER               -> "none"

\* A step leaves a stored transfer as it is, or moves its status to the next one
\* (its id, code, source and expiry as before), or deletes it in an answered
\* cancel of its source user or in the cleanup of expired transfers; a transfer
\* that appears is pending.
C35_Step ==
    /\ \A r \in transfers :
          LET after == {x \in transfers' : x.id = r.id}
          IN  \/ r \in transfers'
              \/ /\ after = {}
                 /\ \/ /\ resp'.op = "cancel_transfer_request"
                       /\ resp'.status = 200
                       /\ resp'.id = r.id
                       /\ resp'.user = r.source_user_id
                    \/ /\ resp'.op = "create_transfer"
                       /\ resp'.pc = "cleanup"
                       /\ r.expires_at < now
              \/ \E x \in after :
                    /\ after = {x}
                    /\ x.status = C35_Successor(r.status)
                    /\ x.code = r.code
                    /\ x.source_user_id = r.source_user_id
                    /\ x.source_device_id = r.source_device_id
                    /\ x.expires_at = r.expires_at
    /\ \A x \in transfers' :
          (\A r \in transfers : r.id # x.id) => x.status = "pending"

\* C35: the status of a transfer only advances pending, claimed, approved,
\* completed, one step at a time, never backwards and never skipping one; the only
\* other change to a transfer is its deletion by cancel or by the cleanup of
\* expired transfers.
C35_StatusOnlyAdvances == [][C35_Step]_vars

\* A receive has just completed a transfer, which has gone through every status.
C35_CompletedTransfer ==
    /\ \E r \in transfers : r.status = "completed"
    /\ resp.op = "receive_transfer_identity" /\ resp.pc = "complete"

\* A claim goes past its lookup of the code, and a receive past its expiry check,
\* only for a transfer whose expiry time has not passed; a receive for a stored
\* transfer past its expiry time is answered 410 whatever its status.
C36_Step ==
    \A t \in Threads :
        /\ (Free(t) /\ threads'[t].op = "claim_transfer_request") =>
              get_transfer_by_id(threads'[t].id).expires_at > now
        /\ (Free(t) /\ threads'[t].op = "receive_transfer_identity") =>
              ~(get_transfer_by_id(threads'[t].id).expires_at < now)
        /\ (/\ now' = now
            /\ resp'.op = "receive_transfer_identity"
            /\ resp'.pc = "read"
            /\ get_transfer_by_id(resp'.id) # NoTransfer
            /\ get_transfer_by_id(resp'.id).expires_at < now) =>
              resp'.status = 410

\* C36: once the expiry time of a transfer has passed, no claim of it succeeds
\* and receive never returns its identity, even if it was approved after the
\* expiry.
C36_NothingAfterExpiry == [][C36_Step]_vars

\* A receive for an approved transfer whose expiry time has passed is answered
\* 410.
C36_ApprovedButExpired ==
    /\ resp.op = "receive_transfer_identity" /\ resp.pc = "read"
    /\ resp.status = 410
    /\ resp.body.status = "approved"
    /\ resp.body.expires_at < now

\* C31: delete_account deletes all data of the user: once the users row is gone,
\* no contact edge, permission grant, encrypted location, device or transfer
\* references the user, and no later request is answered with an encrypted
\* identity of the user.
C31_AccountDataDeleted ==
    \A u \in Callers :
        get_user_by_id(u) = NoUser =>
            /\ \A c \in contacts : c.requester_id # u /\ c.recipient_id # u
            /\ \A p \in permissions : p.granter_id # u /\ p.grantee_id # u
            /\ \A r \in encrypted_locations : r.from_user_id # u /\ r.to_user_id # u
            /\ \A d \in devices : d.user_id # u
            /\ \A r \in transfers : r.source_user_id # u
            /\ ~(/\ resp.op = "receive_transfer_identity"
                 /\ resp.pc = "complete"
                 /\ resp.body.encryptedIdentity = IdentityOf(u))

====
